---- MODULE Spec2Model ----
(***************************************************************************)
(* State-machine model of the dispute-resolution substrate: the evidence   *)
(* service, the dry-run escrow backend, the judge service, the reputation  *)
(* service and the demo orchestrator.                                      *)
(*                                                                         *)
(* Hashes are modelled structurally: keccak over the canonical JSON of a   *)
(* document is the tuple of the document's hashed fields, so two documents *)
(* hash alike exactly when their hashed fields agree.  The reserved        *)
(* sentinel "0x0" is the empty tuple ZeroHash.                             *)
(***************************************************************************)
EXTENDS Integers, Sequences, FiniteSets, TLC

\* ------------------------------------------------------------------------
\* Bounds of the model
\* ------------------------------------------------------------------------
MaxChain == 2
MaxReceiptIds == 2
MaxAnchors == 1
MaxDisputes == 1
MaxFaults == 1
MaxRulings == 2
MaxFactReceipts == 3
RateLimit == 60
MaxEmits == 2
MaxSubscribers == 2
MaxRuns == 2
MaxClients == 2
MaxClock == 2
MaxEmissions == 3
MaxLeaves == 4
MaxSends == 3
MaxCommits == 2
MaxFilings == 3
BlockStart == 1

\* ------------------------------------------------------------------------
\* Program constants
\* ------------------------------------------------------------------------
ChainId == 48816

ZeroHash == <<>>
BadHash == <<"bad">>
None == "none"

AgreementIds == {"a1"}
ReceiptIds == 1..MaxReceiptIds
Consumer == "P"
Provider == "D"
ZERO_ADDRESS == "Z"
ContractAddress == "0xC"

VARIABLES
    clauses,        \* evidence store: table clauses (set of rows)
    receipts,       \* evidence store: table receipts (set of rows)
    anchors,        \* evidence store: table anchors (set of rows)
    req,            \* in-flight POST /receipts requests, one per worker slot
    response,       \* evidence service: the response to the last request served as a whole
    mockBlock,      \* dry-run escrow: counters["block"]
    mockDisputeId,  \* dry-run escrow: counters["dispute_id"] (0: no row yet)
    events,         \* dry-run escrow: table events, in insertion order
    disputes,       \* dry-run escrow: table disputes (set of rows)
    config,         \* judge service environment: ESCROW_DRY_RUN, judge key matches
    verdicts,       \* judge store: table verdicts (set of rows)
    cursor,         \* judge store: cursors["judge.from_block"]
    judge,          \* judge watch loop: position and locals
    rulingCalls,    \* history: invocations of submit_ruling per dispute id
    faults,         \* history: handler failures and process restarts so far
    dispatched,     \* history: the dispute ids some poll of the judge has returned
    scores,         \* reputation store: table agent_scores (actor -> score)
    scoreEvents,    \* reputation store: table score_events, in id order
    repCursor,      \* reputation store: cursors["reputation.from_block"]
    rep,            \* reputation watcher: position and locals
    replayed,       \* history: some apply_event met an event_key already stored
    fxClause,       \* fact extraction: the clause given to extract_facts
    fxReceipts,     \* fact extraction: the receipts given to extract_facts
    fxOut,          \* fact extraction: the result and the handler's decision
    run,            \* orchestrator: the run (status, cancel flag, event log)
    task,           \* orchestrator: the run's _execute task
    worker,         \* orchestrator: the flow's worker thread
    pending,        \* orchestrator: broadcasts scheduled on the loop by the worker
    watchers,       \* orchestrator: the subscribers' queues (all they were sent)
    runs,           \* run manager: _runs (status, options, flags, terminal events)
    tasks,          \* run manager: _tasks (position of each run's _execute task)
    services,       \* run manager: _services, the children teardown will stop
    children,       \* run manager: every child process spawned, by run and service
    cancelCalls,    \* run manager: the cancel call of each run (awaiting, returned)
    clients,        \* dry-run escrow: the EscrowClient instances sharing the mock store
    lastPoll,       \* dry-run escrow: the last poll_events call and its result
    filers,         \* dry-run escrow: the file_dispute call of each client
    senders,        \* live escrow: the _send_tx call of each caller of one account
    txCount,        \* live escrow: the chain's transaction count of the account
    signedTxs,      \* live escrow: history of the transactions signed, in order
    fnArgs,         \* protocol library: the arguments of the function under check
    fnResult,       \* protocol library: what the function returned for them
    flow            \* consumer agent: the dispute flows (position and locals)

evVars == <<clauses, receipts, anchors, req, response>>
escVars == <<mockBlock, mockDisputeId, events, disputes>>
judgeVars == <<config, verdicts, cursor, judge, rulingCalls, faults, dispatched>>
repVars == <<scores, scoreEvents, repCursor, rep, replayed>>
fxVars == <<fxClause, fxReceipts, fxOut>>
mgrVars == <<runs, tasks, services, children, cancelCalls>>
runVars == <<run, task, worker, pending, watchers, mgrVars>>
cliVars == <<clients, lastPoll, filers, senders, txCount, signedTxs>>
fnVars == <<fnArgs, fnResult>>
vars == <<clauses, receipts, anchors, req, response, mockBlock, mockDisputeId, events, disputes,
          config, verdicts, cursor, judge, rulingCalls, faults, dispatched,
          scores, scoreEvents, repCursor, rep, replayed,
          fxClause, fxReceipts, fxOut,
          run, task, worker, pending, watchers,
          runs, tasks, services, children, cancelCalls, clients, lastPoll,
          filers, senders, txCount, signedTxs,
          fnArgs, fnResult, flow>>

\* ------------------------------------------------------------------------
\* Hashing, signatures, Merkle root (packages/protocol)
\* ------------------------------------------------------------------------
\* compute_receipt_hash: every field but receiptHash and signature
ReceiptHashOf(r) ==
    <<r.receiptId, r.chainId, r.contractAddress, r.agreementId, r.clauseHash,
      r.sequence, r.eventType, r.timestamp, r.actorId, r.requestId,
      r.resultType, r.prevHash>>

\* compute_clause_hash: every field but clauseHash
ClauseHashOf(c) ==
    <<c.clauseId, c.chainId, c.contractAddress, c.agreementId, c.slaRules, c.abuseRules>>

\* sign_hash_eip191: a signature names its signer and the digest signed
\* (v is the last byte of the hex string: sign_message writes 27 or 28)
SignHash(key, digest) == [by |-> key, over |-> digest, v |-> "27/28"]

\* verify_signature_eip191: the signer recovered from (digest, signature) is expected;
\* the hex string is decoded and v brought to 0/1 before the recovery
VerifySignature(digest, signature, expected) ==
    signature.over = digest /\ signature.by = expected

\* keccak(left + right) of two 32-byte nodes
PairHash(left, right) == <<"node", left, right>>

\* one level that carries an unpaired last node up unhashed
RECURSIVE MerkleLevelCarry(_)
MerkleLevelCarry(nodes) ==
    IF Len(nodes) = 0 THEN <<>>
    ELSE IF Len(nodes) = 1 THEN <<nodes[1]>>
    ELSE <<PairHash(nodes[1], nodes[2])>> \o MerkleLevelCarry(SubSeq(nodes, 3, Len(nodes)))

RECURSIVE MerkleLevel(_)
MerkleLevel(nodes) ==
    IF Len(nodes) = 0 THEN <<>>
    ELSE IF Len(nodes) = 1 THEN <<PairHash(nodes[1], nodes[1])>>
    ELSE <<PairHash(nodes[1], nodes[2])>> \o MerkleLevel(SubSeq(nodes, 3, Len(nodes)))

RECURSIVE MerkleReduce(_)
MerkleReduce(nodes) ==
    IF Len(nodes) <= 1 THEN nodes[1] ELSE MerkleReduce(MerkleLevel(nodes))

merkle_root_hash(leaves) ==
    IF Len(leaves) = 0 THEN ZeroHash ELSE MerkleReduce(leaves)

\* ------------------------------------------------------------------------
\* verify_receipt_chain (packages/protocol/receipt_chain.py)
\* ------------------------------------------------------------------------
\* sorted(receipts, key=sequence): a stable sort
RECURSIVE SortedBySeq(_)
SortedBySeq(rs) ==
    IF rs = <<>> THEN <<>>
    ELSE LET n == Len(rs)
             init == SortedBySeq(SubSeq(rs, 1, n - 1))
             last == rs[n]
             k == Cardinality({i \in 1..Len(init) : init[i].sequence <= last.sequence})
         IN SubSeq(init, 1, k) \o <<last>> \o SubSeq(init, k + 1, Len(init))

NoExpect == [use |-> FALSE, chainId |-> 0, contractAddress |-> "", agreementId |-> "",
             clauseHash |-> ZeroHash]

\* verify_receipt_chain without the prevHash link check
ReceiptErrorsNoLink(ordered, i, exp) ==
    LET r == ordered[i] IN
    (IF r.sequence # i - 1 THEN {<<"sequence mismatch", i - 1>>} ELSE {})
    \cup (IF ReceiptHashOf(r) # r.receiptHash THEN {<<"receipt hash mismatch", i - 1>>} ELSE {})
    \cup (IF ~VerifySignature(r.receiptHash, r.signature, r.actorId)
          THEN {<<"signature mismatch", i - 1>>} ELSE {})

ReceiptErrors(ordered, i, exp) ==
    LET r == ordered[i] IN
    (IF r.sequence # i - 1 THEN {<<"sequence mismatch", i - 1>>} ELSE {})
    \cup (IF exp.use /\ r.chainId # exp.chainId THEN {<<"wrong chainId", i - 1>>} ELSE {})
    \cup (IF exp.use /\ r.contractAddress # exp.contractAddress
          THEN {<<"wrong contractAddress", i - 1>>} ELSE {})
    \cup (IF exp.use /\ r.agreementId # exp.agreementId
          THEN {<<"wrong agreementId", i - 1>>} ELSE {})
    \cup (IF exp.use /\ r.clauseHash # exp.clauseHash
          THEN {<<"wrong clauseHash", i - 1>>} ELSE {})
    \cup (IF ReceiptHashOf(r) # r.receiptHash THEN {<<"receipt hash mismatch", i - 1>>} ELSE {})
    \cup (IF i = 1
          THEN (IF r.prevHash # ZeroHash THEN {<<"first receipt prevHash must be 0x0", 0>>} ELSE {})
          ELSE (IF r.prevHash # ordered[i - 1].receiptHash
                THEN {<<"prevHash mismatch", i - 1>>} ELSE {}))
    \cup (IF ~VerifySignature(r.receiptHash, r.signature, r.actorId)
          THEN {<<"signature mismatch", i - 1>>} ELSE {})

verify_receipt_chain(rs, exp) ==
    LET ordered == SortedBySeq(rs)
    IN UNION {ReceiptErrors(ordered, i, exp) : i \in 1..Len(ordered)}

\* ------------------------------------------------------------------------
\* Inputs of the evidence service
\* ------------------------------------------------------------------------
LatencyRule == [metric |-> "latency_ms", operator |-> "<=", value |-> 3000]

ClauseIds == {"c1", "c2"}
SlaChoices == {<<>>, <<LatencyRule>>}

MkClause(id, a, sla, abuse) ==
    LET base == [clauseId |-> id, chainId |-> ChainId, contractAddress |-> ContractAddress,
                 agreementId |-> a, slaRules |-> sla, abuseRules |-> abuse,
                 clauseHash |-> ZeroHash, schemaOk |-> TRUE]
    IN [base EXCEPT !.clauseHash = ClauseHashOf(base)]

ClauseInputs ==
    LET good == {MkClause(id, a, sla, <<>>) : id \in ClauseIds, a \in AgreementIds, sla \in SlaChoices}
    IN good
       \cup {[c EXCEPT !.clauseHash = BadHash] : c \in {g \in good : g.slaRules = <<>>}}
       \cup {[c EXCEPT !.schemaOk = FALSE] : c \in {g \in good : g.slaRules = <<>>}}

Body(et, ts) == [eventType |-> et, timestamp |-> ts, requestId |-> "q1", resultType |-> None]
Bodies == {Body("request", 1000), Body("response", 5000)}

MkReceipt(id, a, ch, seq, body, prev) ==
    LET actor == IF body.eventType = "request" THEN Consumer ELSE Provider
        base == [receiptId |-> id, chainId |-> ChainId, contractAddress |-> ContractAddress,
                 agreementId |-> a, clauseHash |-> ch, sequence |-> seq,
                 eventType |-> body.eventType, timestamp |-> body.timestamp,
                 actorId |-> actor, requestId |-> body.requestId,
                 resultType |-> body.resultType, prevHash |-> prev,
                 receiptHash |-> ZeroHash, signature |-> SignHash(actor, ZeroHash),
                 schemaOk |-> TRUE]
        h == ReceiptHashOf(base)
    IN [base EXCEPT !.receiptHash = h, !.signature = SignHash(actor, h)]

Tampers == {"none", "hash", "signature", "schema"}

Tamper(r, t) ==
    CASE t = "hash" -> [r EXCEPT !.receiptHash = BadHash, !.signature = SignHash(r.actorId, BadHash)]
      [] t = "signature" -> [r EXCEPT !.signature = SignHash("X", r.receiptHash)]
      [] t = "schema" -> [r EXCEPT !.schemaOk = FALSE]
      [] OTHER -> r

NoReceipt == MkReceipt(0, "", ZeroHash, 0, Body("", 0), ZeroHash)

\* ------------------------------------------------------------------------
\* EvidenceStorage (apps/evidence_service/storage.py)
\* ------------------------------------------------------------------------
RECURSIVE OrderBySequence(_)
OrderBySequence(S) ==
    IF S = {} THEN <<>>
    ELSE LET m == CHOOSE r \in S : \A q \in S : r.sequence <= q.sequence
         IN <<m>> \o OrderBySequence(S \ {m})

\* list_receipts(agreement_id): SELECT ... WHERE agreement_id = ? ORDER BY sequence ASC
list_receipts(table, a) == OrderBySequence({r \in table : r.agreementId = a})

\* the receipts table without its UNIQUE index on (agreement_id, sequence)
ReceiptPrimaryKeyOnly(table, r) ==
    \E q \in table : q.receiptId = r.receiptId

\* the PRIMARY KEY on receipt_id and the UNIQUE index on (agreement_id, sequence)
ReceiptConstraintViolated(table, r) ==
    \/ \E q \in table : q.receiptId = r.receiptId
    \/ \E q \in table : q.agreementId = r.agreementId /\ q.sequence = r.sequence

\* an INSERT OR REPLACE that still reports the conflict
store_receipt_replacing(table, r) ==
    [raised |-> ReceiptConstraintViolated(table, r),
     table |-> {q \in table : q.receiptId # r.receiptId
                               /\ ~(q.agreementId = r.agreementId /\ q.sequence = r.sequence)}
               \cup {r}]

\* store_receipt: a plain INSERT; a violated constraint raises and nothing is written
store_receipt(table, r) ==
    IF ReceiptConstraintViolated(table, r)
    THEN [raised |-> TRUE, table |-> table]
    ELSE [raised |-> FALSE, table |-> table \cup {r}]

\* store_clause: INSERT OR REPLACE on PRIMARY KEY clause_id, UNIQUE agreement_id
store_clause(table, c) ==
    {q \in table : q.clauseId # c.clauseId /\ q.agreementId # c.agreementId} \cup {c}

get_clause_by_agreement(table, a) == {c \in table : c.agreementId = a}

\* store_anchor: the agreement's row is replaced
store_anchor(table, a, root, tx, ids) ==
    {q \in table : q.agreementId # a}
    \cup {[agreementId |-> a, rootHash |-> root, txHash |-> tx, receiptIds |-> ids]}

get_anchor_by_root(table, root) == {q \in table : q.rootHash = root}

HashesOf(rs) == [i \in 1..Len(rs) |-> rs[i].receiptHash]
\* an anchor that records no receipt ids
NoIds(rs) == <<>>

IdsOf(rs) == [i \in 1..Len(rs) |-> rs[i].receiptId]

\* ------------------------------------------------------------------------
\* Dry-run escrow backend (packages/protocol/escrow_client.py)
\* ------------------------------------------------------------------------
MockTxHash(label, block) == <<label, block>>

MockEvent(name, block, tx, args) == [name |-> name, blockNumber |-> block, txHash |-> tx, args |-> args]

\* commit_evidence_hash in dry-run: one block, one EvidenceCommitted event
CommitEvidenceEvent(a, root, agent, block) ==
    MockEvent("EvidenceCommitted", block, MockTxHash("commit-evidence", block),
              [agreementId |-> a, rootHash |-> root, agent |-> agent])

\* ------------------------------------------------------------------------
\* Evidence service routes (apps/evidence_service/routes.py)
\* ------------------------------------------------------------------------
\* post_clause: 400 on a schema violation or a clauseHash mismatch
PostClauseStatus(c) ==
    IF ~c.schemaOk THEN 400
    ELSE IF c.clauseHash # ClauseHashOf(c) THEN 400
    ELSE 200

\* run_dispute_flow: a flow that has not made its first request
Flows == {1, 2}
NewFlow == [pc |-> "clause", sequence |-> 0, clauseHash |-> ZeroHash, prevHash |-> ZeroHash,
            rootHash |-> ZeroHash, disputeId |-> 0]

\* no call of a protocol function has returned
NoResult == [done |-> FALSE]

NoResponse == [route |-> "", status |-> 0]
Response(route, status) == [route |-> route, status |-> status]

PostClause(c) ==
    /\ clauses' = IF PostClauseStatus(c) = 200 THEN store_clause(clauses, c) ELSE clauses
    /\ response' = Response("POST /clauses", PostClauseStatus(c))
    /\ UNCHANGED <<receipts, anchors, req, escVars, judgeVars, repVars, fxVars, fnVars, flow, cliVars, runVars>>

\* post_receipt up to the chain verification: 400 on a schema violation or a
\* receiptHash mismatch
ReceiptPrecheck(r) ==
    IF ~r.schemaOk THEN 400
    ELSE IF r.receiptHash # ReceiptHashOf(r) THEN 400
    ELSE 200

\* verify_receipt_chain(existing + [receipt])
ChainCheck(existing, r) ==
    IF verify_receipt_chain(existing \o <<r>>, NoExpect) # {} THEN 400 ELSE 200

\* the receipts an agent may post: built over the clause hashes and receipt hashes
\* the service has handed out, plus forged ones
PrevChoices(a) == {ZeroHash, BadHash} \cup {q.receiptHash : q \in {x \in receipts : x.agreementId = a}}
ClauseHashChoices(a) == {BadHash} \cup {c.clauseHash : c \in get_clause_by_agreement(clauses, a)}

ReceiptInputsOver(bodies, tampers) ==
    UNION {
      {Tamper(MkReceipt(id, a, ch, seq, body, prev), t) :
          id \in ReceiptIds, ch \in ClauseHashChoices(a), seq \in 0..MaxChain,
          body \in bodies, prev \in PrevChoices(a), t \in tampers}
      : a \in AgreementIds}

ReceiptInputs == ReceiptInputsOver(Bodies, Tampers)

\* post_receipt as a whole, when no other request runs between its steps
PostReceipt(r) ==
    LET existing == list_receipts(receipts, r.agreementId)
        checked == ReceiptPrecheck(r) = 200 /\ ChainCheck(existing, r) = 200
        stored == store_receipt(receipts, r)
    IN /\ receipts' = IF checked THEN stored.table ELSE receipts
       /\ response' = Response("POST /receipts", IF checked /\ ~stored.raised THEN 200 ELSE 400)
       /\ UNCHANGED <<clauses, anchors, req, escVars, judgeVars, repVars, fxVars, fnVars, flow, cliVars, runVars>>

\* post_receipt step by step (a sync route: each request runs on its own worker)
Slots == {1, 2}
IdleReq == [pc |-> "idle", r |-> NoReceipt, existing |-> <<>>, status |-> 0, okAtStart |-> FALSE,
            tx |-> <<>>]

ReqStart(s, r) ==
    /\ req[s].pc = "idle"
    /\ req' = [req EXCEPT ![s] =
                  IF ReceiptPrecheck(r) # 200
                  THEN [IdleReq EXCEPT !.pc = "done", !.r = r, !.status = 400]
                  ELSE [IdleReq EXCEPT !.pc = "read", !.r = r,
                           !.okAtStart = /\ ChainCheck(list_receipts(receipts, r.agreementId), r) = 200
                                         /\ ~ReceiptConstraintViolated(receipts, r)]]
    /\ UNCHANGED <<clauses, receipts, anchors, response, escVars, judgeVars, repVars, fxVars, fnVars, flow, cliVars, runVars>>

ReqRead(s) ==
    /\ req[s].pc = "read"
    /\ req' = [req EXCEPT ![s].pc = "verify",
                          ![s].existing = list_receipts(receipts, req[s].r.agreementId)]
    /\ UNCHANGED <<clauses, receipts, anchors, response, escVars, judgeVars, repVars, fxVars, fnVars, flow, cliVars, runVars>>

ReqVerify(s) ==
    /\ req[s].pc = "verify"
    /\ req' = [req EXCEPT ![s] =
                  IF ChainCheck(req[s].existing, req[s].r) = 200
                  THEN [@ EXCEPT !.pc = "insert"]
                  ELSE [@ EXCEPT !.pc = "done", !.status = 400]]
    /\ UNCHANGED <<clauses, receipts, anchors, response, escVars, judgeVars, repVars, fxVars, fnVars, flow, cliVars, runVars>>

ReqInsert(s) ==
    /\ req[s].pc = "insert"
    /\ LET stored == store_receipt(receipts, req[s].r)
       IN /\ req' = [req EXCEPT ![s].pc = "done", ![s].status = IF stored.raised THEN 400 ELSE 200]
          /\ receipts' = stored.table
    /\ UNCHANGED <<clauses, anchors, response, escVars, judgeVars, repVars, fxVars, fnVars, flow, cliVars, runVars>>

ReqFinish(s) ==
    /\ req[s].pc = "done"
    /\ req' = [req EXCEPT ![s] = IdleReq]
    /\ UNCHANGED <<clauses, receipts, anchors, response, escVars, judgeVars, repVars, fxVars, fnVars, flow, cliVars, runVars>>

\* anchor_receipts: 404 without receipts; else commit the root, upsert the anchor
Anchor(a) ==
    LET rs == list_receipts(receipts, a)
        root == merkle_root_hash(HashesOf(rs))
        block == mockBlock + 1
        ev == CommitEvidenceEvent(a, root, Provider, block)
    IN /\ rs # <<>>
       /\ Cardinality({i \in DOMAIN events : events[i].name = "EvidenceCommitted"}) < MaxAnchors
       /\ mockBlock' = block
       /\ events' = Append(events, ev)
       /\ anchors' = store_anchor(anchors, a, root, ev.txHash, IdsOf(rs))
       /\ response' = Response("POST /anchor", 200)
       /\ UNCHANGED <<clauses, receipts, req, mockDisputeId, disputes, judgeVars, repVars, fxVars, fnVars, flow, cliVars, runVars>>

\* the POST /anchor requests between their read of the receipts and their return
Anchoring == {s \in Slots : req[s].pc \in {"commit", "upsert"}}

\* anchor_receipts step by step (a sync route): list_receipts, 404 when empty
AnchorRead(s, a) ==
    /\ req[s].pc = "idle"
    /\ list_receipts(receipts, a) # <<>>
    /\ Cardinality({i \in DOMAIN events : events[i].name = "EvidenceCommitted"})
          + Cardinality(Anchoring) < MaxCommits
    /\ req' = [req EXCEPT ![s] = [IdleReq EXCEPT !.pc = "commit",
                                                 !.existing = list_receipts(receipts, a)]]
    /\ UNCHANGED <<clauses, receipts, anchors, response, escVars, judgeVars, repVars, fxVars, fnVars, flow, cliVars, runVars>>

\* anchor_receipts: compute_anchor_root, commit_evidence_hash; when ok is false
\* the call raises and the request ends with 500
AnchorCommit(s, ok) ==
    LET rs == req[s].existing
        block == mockBlock + 1
        ev == CommitEvidenceEvent(rs[1].agreementId, merkle_root_hash(HashesOf(rs)), Provider, block)
    IN /\ req[s].pc = "commit"
       /\ IF ok
          THEN /\ mockBlock' = block
               /\ events' = Append(events, ev)
               /\ req' = [req EXCEPT ![s].pc = "upsert", ![s].tx = ev.txHash]
               /\ UNCHANGED response
          ELSE /\ req' = [req EXCEPT ![s] = IdleReq]
               /\ response' = Response("POST /anchor", 500)
               /\ UNCHANGED <<mockBlock, events>>
       /\ UNCHANGED <<clauses, receipts, anchors, mockDisputeId, disputes, judgeVars, repVars, fxVars, fnVars, flow, cliVars, runVars>>

\* anchor_receipts: store_anchor with the root and the transaction hash of the
\* request's commit; when ok is false the upsert raises and the request ends
\* with 500
AnchorStore(s, ok) ==
    LET rs == req[s].existing
    IN /\ req[s].pc = "upsert"
       /\ anchors' = IF ok
                     THEN store_anchor(anchors, rs[1].agreementId, merkle_root_hash(HashesOf(rs)),
                                       req[s].tx, IdsOf(rs))
                     ELSE anchors
       /\ response' = Response("POST /anchor", IF ok THEN 200 ELSE 500)
       /\ req' = [req EXCEPT ![s] = IdleReq]
       /\ UNCHANGED <<clauses, receipts, escVars, judgeVars, repVars, fxVars, fnVars, flow, cliVars, runVars>>

\* ------------------------------------------------------------------------
\* Dry-run escrow backend: disputes and rulings
\* ------------------------------------------------------------------------
Zero32 == <<"zero32">>

\* the 10-field dispute row written by file_dispute
DisputeRow(txId, plaintiff, defendant, stake, evidence) ==
    <<txId, plaintiff, defendant, stake, stake \div 200, 0, evidence, Zero32, FALSE, ZERO_ADDRESS>>

\* _mock_put_dispute: INSERT OR REPLACE on dispute_id
mock_put_dispute(table, id, row) ==
    {d \in table : d.disputeId # id} \cup {[disputeId |-> id, row |-> row]}

\* _mock_get_dispute: the rows of the id (none or one)
mock_get_dispute(table, id) == {d.row : d \in {x \in table : x.disputeId = id}}

\* file_dispute in dry-run: next dispute id, the dispute row, one block, one
\* DisputeFiled event
FileDispute(txId, stake, evidence) ==
    LET id == mockDisputeId + 1
        block == mockBlock + 1
    IN /\ mockDisputeId < MaxDisputes
       /\ mockDisputeId' = id
       /\ disputes' = mock_put_dispute(disputes, id,
                          DisputeRow(txId, Consumer, Provider, stake, evidence))
       /\ mockBlock' = block
       /\ events' = Append(events,
              MockEvent("DisputeFiled", block, MockTxHash("file-dispute", block),
                        [disputeId |-> id, plaintiff |-> Consumer, defendant |-> Provider]))
       /\ UNCHANGED <<evVars, judgeVars, repVars, fxVars, fnVars, flow, cliVars, runVars>>

\* submit_ruling in dry-run: the dispute row is marked resolved with the winner
MockRuledDisputes(table, id, winner) ==
    IF mock_get_dispute(table, id) = {} THEN table
    ELSE LET row == CHOOSE r \in mock_get_dispute(table, id) : TRUE
         IN mock_put_dispute(table, id, [row EXCEPT ![9] = TRUE, ![10] = winner])

MockRulingLoser(table, id, winner) ==
    IF mock_get_dispute(table, id) = {} THEN ZERO_ADDRESS
    ELSE LET row == CHOOSE r \in mock_get_dispute(table, id) : TRUE
         IN IF winner = row[2] THEN row[3] ELSE row[2]

\* submit_ruling in dry-run: the dispute row, one block, one RulingSubmitted event
MockSubmitRuling(id, winner) ==
    LET block == mockBlock + 1
    IN /\ disputes' = MockRuledDisputes(disputes, id, winner)
       /\ mockBlock' = block
       /\ events' = Append(events,
              MockEvent("RulingSubmitted", block, MockTxHash("submit-ruling", block),
                        [disputeId |-> id, winner |-> winner,
                         loser |-> MockRulingLoser(disputes, id, winner)]))
       /\ UNCHANGED mockDisputeId

\* to_block of poll_events: "latest", or a block number
Latest == [latest |-> TRUE, n |-> 0]
ToBlock(n) == [latest |-> FALSE, n |-> n]

\* WHERE block_number >= ? AND block_number <= ?, "latest" being the largest integer
InRange(block, from_block, to_block) ==
    block >= from_block /\ (to_block.latest \/ block <= to_block.n)

\* the rows of the events table in order of their ids
RECURSIVE OrderRowsById(_, _)
OrderRowsById(log, S) ==
    IF S = {} THEN <<>>
    ELSE LET m == CHOOSE i \in S : \A j \in S : i <= j
         IN <<m>> \o OrderRowsById(log, S \ {m})

\* ORDER BY block_number ASC, id ASC
RECURSIVE OrderRows(_, _)
OrderRows(log, S) ==
    IF S = {} THEN <<>>
    ELSE LET m == CHOOSE i \in S : \A j \in S :
                     \/ log[i].blockNumber < log[j].blockNumber
                     \/ log[i].blockNumber = log[j].blockNumber /\ i <= j
         IN <<m>> \o OrderRows(log, S \ {m})

\* poll_events in dry-run, as row ids: the rows of the name within the block
\* range, in order
poll_rows(name, from_block, to_block) ==
    OrderRows(events, {i \in 1..Len(events) :
                          events[i].name = name /\ InRange(events[i].blockNumber, from_block, to_block)})

\* poll_events in dry-run: one log per row
poll_events(name, from_block, to_block) ==
    LET rows == poll_rows(name, from_block, to_block)
    IN [k \in 1..Len(rows) |-> events[rows[k]]]

\* ------------------------------------------------------------------------
\* extract_facts (apps/judge_service/fact_extractor.py)
\* ------------------------------------------------------------------------
MinuteMs == 60000

SetMax(S) == CHOOSE m \in S : \A x \in S : x <= m

IndicesOf(rs, et) == {i \in 1..Len(rs) : rs[i].eventType = et}

\* request_times / response_times: the last timestamp recorded per requestId
TimesOf(rs, et) ==
    LET ids == {rs[i].requestId : i \in IndicesOf(rs, et)}
    IN [q \in ids |-> rs[SetMax({i \in IndicesOf(rs, et) : rs[i].requestId = q})].timestamp]

MaxLatency(rs) ==
    LET reqT == TimesOf(rs, "request")
        respT == TimesOf(rs, "response")
        lat == {IF respT[q] - reqT[q] > 0 THEN respT[q] - reqT[q] ELSE 0 :
                   q \in DOMAIN reqT \cap DOMAIN respT}
    IN IF lat = {} THEN 0 ELSE SetMax(lat)

\* minute_bucket = timestamp // 60000
MinuteBucket(ts) == ts \div MinuteMs

PeakRpm(rs) ==
    LET reqs == IndicesOf(rs, "request")
        buckets == {MinuteBucket(rs[i].timestamp) : i \in reqs}
    IN IF buckets = {} THEN 0
       ELSE SetMax({Cardinality({i \in reqs : MinuteBucket(rs[i].timestamp) = b}) : b \in buckets})

SlaBreached(rule, maxLatency) ==
    rule.metric = "latency_ms" /\ rule.operator = "<=" /\ maxLatency > rule.value

\* the abuse rule compared one request too late
AbuseBreachedLate(rule, peak) ==
    rule.metric = "requests_per_minute" /\ rule.operator = "<=" /\ peak > rule.value + 1

AbuseBreached(rule, peak) ==
    rule.metric = "requests_per_minute" /\ rule.operator = "<=" /\ peak > rule.value

\* one code per breached rule, SLA rules first
SlaCodes(rules, maxLatency) ==
    [i \in 1..Len(SelectSeq(rules, LAMBDA r : SlaBreached(r, maxLatency))) |-> "sla_breach:latency"]

AbuseCodes(rules, peak) ==
    [i \in 1..Len(SelectSeq(rules, LAMBDA r : AbuseBreached(r, peak))) |-> "clause_violated:rate_limit"]

\* extract_facts deciding for the defendant without looking for a request
extract_facts_any_defendant(clause, rs) ==
    LET maxLatency == MaxLatency(rs)
        peak == PeakRpm(rs)
        codes == SlaCodes(clause.slaRules, maxLatency) \o AbuseCodes(clause.abuseRules, peak)
    IN [facts |-> [latency_ms |-> maxLatency,
                   peak_requests_per_minute |-> peak,
                   request_count |-> Cardinality(DOMAIN TimesOf(rs, "request")),
                   response_count |-> Cardinality(DOMAIN TimesOf(rs, "response"))],
        reasonCodes |-> codes,
        winner |-> IF codes # <<>> THEN "plaintiff" ELSE "defendant"]

extract_facts(clause, rs) ==
    LET maxLatency == MaxLatency(rs)
        peak == PeakRpm(rs)
        requestCount == Cardinality(DOMAIN TimesOf(rs, "request"))
        codes == SlaCodes(clause.slaRules, maxLatency) \o AbuseCodes(clause.abuseRules, peak)
    IN [facts |-> [latency_ms |-> maxLatency,
                   peak_requests_per_minute |-> peak,
                   request_count |-> requestCount,
                   response_count |-> Cardinality(DOMAIN TimesOf(rs, "response"))],
        reasonCodes |-> codes,
        winner |-> IF codes # <<>> THEN "plaintiff"
                   ELSE IF requestCount > 0 THEN "defendant"
                   ELSE None]

\* ------------------------------------------------------------------------
\* Judge service (apps/judge_service)
\* ------------------------------------------------------------------------
SubmitThreshold == 70
FactsConfidence == 95
IntegrityConfidence == 99

NoTx == <<>>
ManualReviewFlag == <<"needs_manual_review", 0>>
DisputeIds == 1..MaxDisputes

\* the dispute ids FileDispute and the consumer flows can be given
LedgerIds == 1..(MaxDisputes + 1)

\* confidence is held in hundredths
\* LlmJudge.judge: no API key; an unparseable reply; a parsed reply
LlmReplies ==
    {[codes |-> <<"insufficient_signal">>, winner |-> None, confidence |-> 50],
     [codes |-> <<"llm_parse_error">>, winner |-> None, confidence |-> 45]}
    \cup {[codes |-> <<"ai_panel">>, winner |-> w, confidence |-> c] :
             w \in {"plaintiff", "defendant"}, c \in {SubmitThreshold - 1, SubmitThreshold}}

\* verify_evidence_bundle: the chain errors under the clause's header, plus the
\* anchor root mismatch
verify_evidence_bundle(rs, expectedRoot, clause, agreementId) ==
    verify_receipt_chain(rs, [use |-> TRUE, chainId |-> clause.chainId,
                              contractAddress |-> clause.contractAddress,
                              agreementId |-> agreementId,
                              clauseHash |-> clause.clauseHash])
    \cup (IF merkle_root_hash(HashesOf(SortedBySeq(rs))) # expectedRoot
          THEN {<<"anchor root mismatch", 0>>} ELSE {})

\* JudgeStorage
is_processed(table, id) == \E v \in table : v.disputeId = id

\* store_verdict: INSERT OR REPLACE under the UNIQUE index on dispute_id
store_verdict(table, v) == {q \in table : q.disputeId # v.disputeId} \cup {v}

NoVerdict ==
    [disputeId |-> 0, transactionId |-> 0, agreementId |-> "", clauseHash |-> ZeroHash,
     plaintiff |-> "", defendant |-> "", winner |-> "", loser |-> "",
     reasonCodes |-> <<>>, confidence |-> 0, flags |-> {}, evidenceReceiptIds |-> <<>>,
     status |-> "", submitTxHash |-> NoTx]

\* locals of one run of _handle_dispute; consulted and rulingCalled record which
\* collaborators the run has called
NoRun == [verdict |-> NoVerdict, ok |-> TRUE, consulted |-> {}, rulingCalled |-> FALSE]

IdleJudge == [pc |-> "idle", from_block |-> 0, batch |-> <<>>, next_block |-> 0, run |-> NoRun]

\* DisputeWatcher.poll: the DisputeFiled logs from from_block on, and the block
\* after the last one seen
WatcherPoll(from_block) ==
    LET logs == poll_events("DisputeFiled", from_block, Latest)
        blocks == {from_block} \cup {logs[i].blockNumber : i \in 1..Len(logs)}
    IN [events |-> [i \in 1..Len(logs) |->
                       [dispute_id |-> logs[i].args.disputeId,
                        plaintiff |-> logs[i].args.plaintiff,
                        defendant |-> logs[i].args.defendant,
                        block_number |-> logs[i].blockNumber]],
        next_block |-> SetMax(blocks) + 1]

\* _get_evidence_bundle: {} stands for None
EvidenceBundle(root) ==
    {[agreementId |-> p[1].agreementId, clause |-> p[2],
      receipts |-> list_receipts(receipts, p[1].agreementId)] :
        p \in {q \in get_anchor_by_root(anchors, root) \X clauses :
                  q[2].agreementId = q[1].agreementId}}

\* a panel whose missing winner goes to the plaintiff
PanelWinnerPlaintiff(reply, plaintiff, defendant) ==
    IF reply.winner = "defendant" THEN defendant ELSE plaintiff

\* the party named by the panel's reply; the defendant when it names none
PanelWinner(reply, plaintiff, defendant) ==
    IF reply.winner = "plaintiff" THEN plaintiff ELSE defendant

\* the decision with the integrity check ignored
DecideIgnoringIntegrity(ok, errors, extracted, reply, plaintiff, defendant) ==
    IF extracted.winner = "plaintiff"
    THEN [reasonCodes |-> extracted.reasonCodes, flags |-> {}, winner |-> plaintiff,
          confidence |-> FactsConfidence, consulted |-> {"extractor"}]
    ELSE [reasonCodes |-> extracted.reasonCodes, flags |-> {}, winner |-> defendant,
          confidence |-> FactsConfidence, consulted |-> {"extractor"}]

\* the decision of _handle_dispute from the verification result, the extracted
\* facts and, when consulted, the panel's reply
Decide(ok, errors, extracted, reply, plaintiff, defendant) ==
    IF ~ok
    THEN [reasonCodes |-> <<"hash_mismatch">>, flags |-> errors, winner |-> defendant,
          confidence |-> IntegrityConfidence, consulted |-> {}]
    ELSE IF extracted.winner = "plaintiff"
    THEN [reasonCodes |-> extracted.reasonCodes, flags |-> {}, winner |-> plaintiff,
          confidence |-> FactsConfidence, consulted |-> {"extractor"}]
    ELSE IF extracted.winner = "defendant"
    THEN [reasonCodes |-> extracted.reasonCodes, flags |-> {}, winner |-> defendant,
          confidence |-> FactsConfidence, consulted |-> {"extractor"}]
    ELSE [reasonCodes |-> extracted.reasonCodes \o reply.codes, flags |-> {},
          winner |-> PanelWinner(reply, plaintiff, defendant),
          confidence |-> reply.confidence, consulted |-> {"extractor", "llm"}]

\* _watch_loop: one poll of the watcher
JudgePoll ==
    /\ judge.pc = "idle"
    /\ judge.from_block <= mockBlock + 1
    /\ LET polled == WatcherPoll(judge.from_block)
       IN judge' = [judge EXCEPT !.pc = "loop", !.batch = polled.events,
                                 !.next_block = polled.next_block]
    /\ LET polled == WatcherPoll(judge.from_block).events
       IN dispatched' = dispatched \cup {polled[i].dispute_id : i \in 1..Len(polled)}
    /\ UNCHANGED <<evVars, escVars, config, verdicts, cursor, rulingCalls, faults, repVars, fxVars, fnVars, flow, cliVars, runVars>>

\* _watch_loop: the next event of the batch (processed disputes are skipped), or,
\* after the last one, from_block = next_block and set_cursor
JudgeLoop ==
    /\ judge.pc = "loop"
    /\ IF judge.batch = <<>>
       THEN /\ judge' = [judge EXCEPT !.pc = "idle", !.from_block = judge.next_block]
            /\ cursor' = judge.next_block
       ELSE /\ judge' = IF is_processed(verdicts, Head(judge.batch).dispute_id)
                        THEN [judge EXCEPT !.batch = Tail(judge.batch)]
                        ELSE [judge EXCEPT !.pc = "handle"]
            /\ UNCHANGED cursor
    /\ UNCHANGED <<evVars, escVars, config, verdicts, rulingCalls, faults, repVars, dispatched, fxVars, fnVars, flow, cliVars, runVars>>

\* _handle_dispute up to the verdict document: get_dispute, the evidence bundle
\* (fetched: the evidence service answered every fetch with a status below 400),
\* verify_evidence_bundle, extract_facts, the panel
JudgeDecide(reply, fetched) ==
    /\ judge.pc = "handle"
    /\ LET event == Head(judge.batch)
           rows == mock_get_dispute(disputes, event.dispute_id)
       IN IF rows = {} \/ ~fetched \/ \A row \in rows : EvidenceBundle(row[7]) = {}
          THEN judge' = [judge EXCEPT !.pc = "loop", !.batch = Tail(judge.batch)]
          ELSE LET dispute == CHOOSE row \in rows : TRUE
                   root == dispute[7]
                   evidence == CHOOSE b \in EvidenceBundle(root) : TRUE
                   errors == verify_evidence_bundle(evidence.receipts, root, evidence.clause,
                                                    evidence.agreementId)
                   ok == errors = {}
                   d == Decide(ok, errors, extract_facts(evidence.clause, evidence.receipts),
                               reply, dispute[2], dispute[3])
               IN judge' = [judge EXCEPT
                      !.pc = "submit",
                      !.run = [verdict |->
                                  [disputeId |-> event.dispute_id,
                                   transactionId |-> dispute[1],
                                   agreementId |-> evidence.agreementId,
                                   clauseHash |-> evidence.clause.clauseHash,
                                   plaintiff |-> dispute[2], defendant |-> dispute[3],
                                   winner |-> d.winner,
                                   loser |-> IF d.winner = dispute[2] THEN dispute[3] ELSE dispute[2],
                                   reasonCodes |-> d.reasonCodes, confidence |-> d.confidence,
                                   flags |-> d.flags,
                                   evidenceReceiptIds |-> IdsOf(evidence.receipts),
                                   status |-> "manual_review", submitTxHash |-> NoTx],
                               ok |-> ok, consulted |-> d.consulted, rulingCalled |-> FALSE]]
    /\ UNCHANGED <<evVars, escVars, config, verdicts, cursor, rulingCalls, faults, repVars, dispatched, fxVars, fnVars, flow, cliVars, runVars>>

\* the submission test with a strict threshold
ShouldSubmitStrict(confidence, cfg) ==
    confidence > SubmitThreshold /\ (cfg.authorized \/ cfg.dryRun)

\* confidence >= 0.7 and (authorized or ESCROW_DRY_RUN == "1")
ShouldSubmit(confidence, cfg) ==
    confidence >= SubmitThreshold /\ (cfg.authorized \/ cfg.dryRun)

\* _handle_dispute, the submission policy: submit_ruling when the confidence
\* reaches the threshold and the judge is authorized or the escrow is dry-run.
\* A dry-run ruling marks the dispute row and emits RulingSubmitted; a live one
\* goes to the contract, which is outside the repository.
JudgeSubmit ==
    /\ judge.pc = "submit"
    /\ LET v == judge.run.verdict
           id == v.disputeId
           block == mockBlock + 1
       IN IF ShouldSubmit(v.confidence, config)
          THEN /\ rulingCalls' = [rulingCalls EXCEPT ![id] = @ + 1]
               /\ IF config.dryRun
                  THEN /\ MockSubmitRuling(id, v.winner)
                       /\ judge' = [judge EXCEPT !.pc = "store",
                                       !.run.rulingCalled = TRUE,
                                       !.run.verdict.status = "submitted",
                                       !.run.verdict.submitTxHash = MockTxHash("submit-ruling", block)]
                  ELSE /\ UNCHANGED escVars
                       /\ judge' = [judge EXCEPT !.pc = "store",
                                       !.run.rulingCalled = TRUE,
                                       !.run.verdict.status = "submitted",
                                       !.run.verdict.submitTxHash = MockTxHash("live-ruling", id)]
          ELSE /\ judge' = [judge EXCEPT !.pc = "store"]
               /\ UNCHANGED <<escVars, rulingCalls>>
    /\ UNCHANGED <<evVars, config, verdicts, cursor, faults, repVars, dispatched, fxVars, fnVars, flow, cliVars, runVars>>

\* _handle_dispute, the end: the manual-review flag, then store_verdict
JudgeStore ==
    /\ judge.pc = "store"
    /\ LET v == judge.run.verdict
           row == IF v.status = "manual_review"
                  THEN [v EXCEPT !.flags = @ \cup {ManualReviewFlag}]
                  ELSE v
       IN verdicts' = store_verdict(verdicts, row)
    /\ judge' = [judge EXCEPT !.pc = "loop", !.batch = Tail(judge.batch), !.run = NoRun]
    /\ UNCHANGED <<evVars, escVars, config, cursor, rulingCalls, faults, repVars, dispatched, fxVars, fnVars, flow, cliVars, runVars>>

\* a loop that takes the polled batch as done when its handler raises
AfterRaiseSkipping(j) == [IdleJudge EXCEPT !.from_block = j.next_block]

\* except Exception: pass -- the batch is dropped, from_block stays
AfterRaise(j) == [IdleJudge EXCEPT !.from_block = j.from_block]

\* an exception inside the handler (an HTTP or RPC error, a database error): the
\* loop's except clause drops the batch; from_block and the cursor stay
JudgeRaise ==
    /\ judge.pc \in {"handle", "submit", "store"}
    /\ faults < MaxFaults
    /\ faults' = faults + 1
    /\ judge' = AfterRaise(judge)
    /\ UNCHANGED <<evVars, escVars, config, verdicts, cursor, rulingCalls, repVars, dispatched, fxVars, fnVars, flow, cliVars, runVars>>

\* the process is killed and started again: the loop resumes from the stored cursor
JudgeRestart ==
    /\ judge.pc # "idle"
    /\ faults < MaxFaults
    /\ faults' = faults + 1
    /\ judge' = [IdleJudge EXCEPT !.from_block = cursor]
    /\ UNCHANGED <<evVars, escVars, config, verdicts, cursor, rulingCalls, repVars, dispatched, fxVars, fnVars, flow, cliVars, runVars>>

\* ------------------------------------------------------------------------
\* Reputation service (apps/reputation_service)
\* ------------------------------------------------------------------------
SCORES == [completed_without_dispute |-> 1, won_dispute |-> 2,
           lost_dispute |-> -5, lost_as_filer |-> -3]

InitialScore == 100

to_did(address) == <<"did:8004", address>>

ScoreOp(actor, reason, key) ==
    [kind |-> "apply", actor |-> to_did(actor), delta |-> SCORES[reason],
     reason |-> reason, key |-> key]

RaiseOp == [kind |-> "raise", actor |-> to_did(""), delta |-> 0, reason |-> "", key |-> <<>>]

\* apply_event without the UNIQUE constraint on event_key
KeyNeverStored(table, key) == FALSE

\* the UNIQUE constraint on score_events.event_key
KeyStored(table, key) == \E i \in 1..Len(table) : table[i].key = key

\* _ensure_actor as INSERT OR REPLACE: the actor's row is reset to 100
ensure_actor_replacing(table, actor) ==
    [x \in DOMAIN table \cup {actor} |-> IF x = actor THEN InitialScore ELSE table[x]]

\* _ensure_actor: INSERT OR IGNORE with score 100
ensure_actor(table, actor) ==
    IF actor \in DOMAIN table THEN table
    ELSE [x \in DOMAIN table \cup {actor} |-> IF x = actor THEN InitialScore ELSE table[x]]

\* poll_once, the operations of one RulingSubmitted log: the winner's and the
\* loser's events, then the filer comparison on dispute[0], which raises when
\* dispute[0] is a non-zero transaction id
RulingOps(log) ==
    LET d == log.args.disputeId
        winner == log.args.winner
        loser == log.args.loser
        rows == mock_get_dispute(disputes, d)
    IN <<ScoreOp(winner, "won_dispute", <<"ruling-win", d, winner>>),
         ScoreOp(loser, "lost_dispute", <<"ruling-lose", d, loser>>)>>
       \o (IF \E row \in rows : row[1] # 0 THEN <<RaiseOp>> ELSE <<>>)

CommitOps(log) ==
    <<ScoreOp(log.args.agent, "completed_without_dispute",
              <<"evidence-commit", log.txHash, log.args.agent>>)>>

RECURSIVE OpsOf(_, _)
OpsOf(logs, isRuling) ==
    IF logs = <<>> THEN <<>>
    ELSE (IF isRuling THEN RulingOps(Head(logs)) ELSE CommitOps(Head(logs)))
         \o OpsOf(Tail(logs), isRuling)

LastBlockOf(from_block, logs) ==
    SetMax({from_block} \cup {logs[i].blockNumber : i \in 1..Len(logs)})

\* outcome: how the last tick ended (it returned, it raised, the process was killed)
IdleRep == [pc |-> "idle", from_block |-> 0, ops |-> <<>>, last_block |-> 0, outcome |-> "none"]

\* poll_once: the RulingSubmitted logs from from_block on
RepPollRulings ==
    /\ rep.pc = "idle"
    /\ rep.from_block <= mockBlock + 1
    /\ LET logs == poll_events("RulingSubmitted", rep.from_block, Latest)
       IN rep' = [rep EXCEPT !.pc = "rulings", !.ops = OpsOf(logs, TRUE),
                             !.last_block = LastBlockOf(rep.from_block, logs)]
    /\ UNCHANGED <<evVars, escVars, judgeVars, scores, scoreEvents, repCursor, replayed, fxVars, fnVars, flow, cliVars, runVars>>

\* poll_once: the EvidenceCommitted logs, once the rulings are done
RepPollCommits ==
    /\ rep.pc = "rulings" /\ rep.ops = <<>>
    /\ LET logs == poll_events("EvidenceCommitted", rep.from_block, Latest)
       IN rep' = [rep EXCEPT !.pc = "commits", !.ops = OpsOf(logs, FALSE),
                             !.last_block = LastBlockOf(rep.last_block, logs)]
    /\ UNCHANGED <<evVars, escVars, judgeVars, scores, scoreEvents, repCursor, replayed, fxVars, fnVars, flow, cliVars, runVars>>

\* apply_event: the actor's row, then the event row unless its key is stored,
\* then the score; or the exception of the filer comparison, which ends the tick
RepStep ==
    /\ rep.pc \in {"rulings", "commits"} /\ rep.ops # <<>>
    /\ LET op == Head(rep.ops)
       IN IF op.kind = "raise"
          THEN /\ rep' = [IdleRep EXCEPT !.from_block = rep.from_block, !.outcome = "raised"]
               /\ UNCHANGED <<scores, scoreEvents, replayed>>
          ELSE /\ rep' = [rep EXCEPT !.ops = Tail(rep.ops)]
               /\ IF KeyStored(scoreEvents, op.key)
                  THEN /\ scores' = ensure_actor(scores, op.actor)
                       /\ replayed' = TRUE
                       /\ UNCHANGED scoreEvents
                  ELSE /\ scoreEvents' = Append(scoreEvents,
                              [actor |-> op.actor, delta |-> op.delta,
                               reason |-> op.reason, key |-> op.key])
                       /\ scores' = [ensure_actor(scores, op.actor) EXCEPT ![op.actor] = @ + op.delta]
                       /\ UNCHANGED replayed
    /\ UNCHANGED <<evVars, escVars, judgeVars, repCursor, fxVars, fnVars, flow, cliVars, runVars>>

\* run_forever: poll_once returned last_block + 1; set_cursor
RepFinish ==
    /\ rep.pc = "commits" /\ rep.ops = <<>>
    /\ rep' = [IdleRep EXCEPT !.from_block = rep.last_block + 1, !.outcome = "returned"]
    /\ repCursor' = rep.last_block + 1
    /\ UNCHANGED <<evVars, escVars, judgeVars, scores, scoreEvents, replayed, fxVars, fnVars, flow, cliVars, runVars>>

\* the process is killed in the middle of a tick and started again
RepCrash ==
    /\ rep.pc # "idle"
    /\ rep' = [IdleRep EXCEPT !.from_block = repCursor, !.outcome = "killed"]
    /\ UNCHANGED <<evVars, escVars, judgeVars, scores, scoreEvents, repCursor, replayed, fxVars, fnVars, flow, cliVars, runVars>>

\* ------------------------------------------------------------------------
\* Demo orchestrator (apps/demo_runner/orchestrator.py): one run
\* ------------------------------------------------------------------------
TerminalStatuses == {"complete", "error", "cancelled"}

NoRunYet == [status |-> "absent", cancel_requested |-> FALSE, events |-> <<>>]

IdleTask == [pc |-> "none", must_cancel |-> FALSE]

IdleWorker == [pc |-> "idle", emitted |-> 0, event |-> [type |-> "", n |-> 0]]

\* DemoRun.emit appends to run.events; an event is named by its type and its
\* position in the log
Stamped(types) == [i \in 1..Len(types) |-> [type |-> types[i], n |-> Len(run.events) + i]]

\* _publish on the event loop: run.emit, then _broadcast to the queues of the run
Publish(types) ==
    watchers' = [w \in DOMAIN watchers |-> watchers[w] \o Stamped(types)]

\* cancel returns False for a finished run, whatever is asked
CancelAlways(status) == TRUE

\* cancel: a run that is complete, error or cancelled is left alone
CancelAllowed(status) == status \notin TerminalStatuses

\* create_run: a pending run, or with auto_run a queued run and its task
CreateRun(auto_run) ==
    /\ run.status = "absent"
    /\ run' = [run EXCEPT !.status = IF auto_run THEN "queued" ELSE "pending"]
    /\ task' = IF auto_run THEN [task EXCEPT !.pc = "ready"] ELSE task
    /\ UNCHANGED <<worker, pending, watchers>>
    /\ UNCHANGED <<evVars, escVars, judgeVars, repVars, fxVars, fnVars, flow, cliVars, mgrVars>>

\* a start that never returns early
StartSkipsNever(taskPc, status) == FALSE

\* start returns at once for a run that has an entry in _tasks, and for a run
\* that is running or finished
StartSkips(taskPc, status) ==
    taskPc # "none" \/ status \in {"running"} \cup TerminalStatuses

\* start: nothing for a run that has a task or is running or finished
Start ==
    /\ run.status # "absent"
    /\ IF StartSkips(task.pc, run.status)
       THEN UNCHANGED <<run, task>>
       ELSE /\ run' = [run EXCEPT !.status = "queued"]
            /\ task' = [task EXCEPT !.pc = "ready"]
    /\ UNCHANGED <<worker, pending, watchers>>
    /\ UNCHANGED <<evVars, escVars, judgeVars, repVars, fxVars, fnVars, flow, cliVars, mgrVars>>

\* cancel: the flag, the status, the run.error event, then Task.cancel
Cancel ==
    /\ task.pc # "none" /\ run.status # "absent"
    /\ CancelAllowed(run.status)
    /\ run' = [run EXCEPT !.cancel_requested = TRUE, !.status = "cancelled",
                          !.events = @ \o Stamped(<<"run.error">>)]
    /\ Publish(<<"run.error">>)
    /\ task' = IF task.pc = "done" THEN task ELSE [task EXCEPT !.must_cancel = TRUE]
    /\ UNCHANGED <<worker, pending>>
    /\ UNCHANGED <<evVars, escVars, judgeVars, repVars, fxVars, fnVars, flow, cliVars, mgrVars>>

\* subscribe: a new queue, filled with the events logged so far
Subscribe ==
    /\ run.status # "absent"
    /\ Len(watchers) < MaxSubscribers
    /\ watchers' = Append(watchers, run.events)
    /\ UNCHANGED <<run, task, worker, pending>>
    /\ UNCHANGED <<evVars, escVars, judgeVars, repVars, fxVars, fnVars, flow, cliVars, mgrVars>>

\* a task cancelled before its first step never runs its body
ExecNeverRuns ==
    /\ task.pc = "ready" /\ task.must_cancel
    /\ task' = [task EXCEPT !.pc = "done"]
    /\ UNCHANGED <<run, worker, pending, watchers>>
    /\ UNCHANGED <<evVars, escVars, judgeVars, repVars, fxVars, fnVars, flow, cliVars, mgrVars>>

\* _execute up to the first suspension: running, run.started, the services are
\* booted and the health wait begins
ExecBegin ==
    /\ task.pc = "ready" /\ ~task.must_cancel
    /\ run' = [run EXCEPT !.status = "running",
                          !.events = @ \o Stamped(<<"run.started", "run.info">>)]
    /\ Publish(<<"run.started", "run.info">>)
    /\ task' = [task EXCEPT !.pc = "services"]
    /\ UNCHANGED <<worker, pending>>
    /\ UNCHANGED <<evVars, escVars, judgeVars, repVars, fxVars, fnVars, flow, cliVars, mgrVars>>

\* the services are healthy; _run_agent_flow publishes step.started and hands
\* the flow to a worker thread
ExecFlowStart ==
    /\ task.pc = "services" /\ ~task.must_cancel
    /\ IF run.cancel_requested
       THEN /\ run' = [run EXCEPT !.status = "error",
                                  !.events = @ \o Stamped(<<"run.info", "run.error">>)]
            /\ Publish(<<"run.info", "run.error">>)
            /\ task' = [task EXCEPT !.pc = "done"]
            /\ UNCHANGED worker
       ELSE /\ run' = [run EXCEPT !.events = @ \o Stamped(<<"run.info", "step.started">>)]
            /\ Publish(<<"run.info", "step.started">>)
            /\ task' = [task EXCEPT !.pc = "flow"]
            /\ worker' = [worker EXCEPT !.pc = "running"]
    /\ UNCHANGED pending
    /\ UNCHANGED <<evVars, escVars, judgeVars, repVars, fxVars, fnVars, flow, cliVars, mgrVars>>

\* the flow returned: step.updated, complete, run.complete, the services stop
ExecComplete ==
    /\ task.pc = "flow" /\ ~task.must_cancel /\ worker.pc = "returned"
    /\ run' = [run EXCEPT !.status = "complete",
                          !.events = @ \o Stamped(<<"step.updated", "run.complete">>)]
    /\ Publish(<<"step.updated", "run.complete">>)
    /\ task' = [task EXCEPT !.pc = "done"]
    /\ UNCHANGED <<worker, pending>>
    /\ UNCHANGED <<evVars, escVars, judgeVars, repVars, fxVars, fnVars, flow, cliVars, mgrVars>>

\* except Exception: the health wait timed out, or the flow raised
ExecError ==
    /\ ~task.must_cancel
    /\ \/ task.pc = "services"
       \/ task.pc = "flow" /\ worker.pc = "raised"
    /\ run' = [run EXCEPT !.status = "error", !.events = @ \o Stamped(<<"run.error">>)]
    /\ Publish(<<"run.error">>)
    /\ task' = [task EXCEPT !.pc = "done"]
    /\ UNCHANGED <<worker, pending>>
    /\ UNCHANGED <<evVars, escVars, judgeVars, repVars, fxVars, fnVars, flow, cliVars, mgrVars>>

\* except CancelledError, at the suspension the task was in
ExecCancelled ==
    /\ task.pc \in {"services", "flow"} /\ task.must_cancel
    /\ run' = [run EXCEPT !.status = "cancelled", !.events = @ \o Stamped(<<"run.error">>)]
    /\ Publish(<<"run.error">>)
    /\ task' = [task EXCEPT !.pc = "done"]
    /\ UNCHANGED <<worker, pending>>
    /\ UNCHANGED <<evVars, escVars, judgeVars, repVars, fxVars, fnVars, flow, cliVars, mgrVars>>

\* the worker's emit, first statement: nothing is emitted once cancel is requested
WorkerCheck ==
    /\ worker.pc = "running"
    /\ worker.emitted < MaxEmits
    /\ worker' = IF run.cancel_requested
                 THEN [worker EXCEPT !.emitted = @ + 1]
                 ELSE [worker EXCEPT !.pc = "checked"]
    /\ UNCHANGED <<run, task, pending, watchers>>
    /\ UNCHANGED <<evVars, escVars, judgeVars, repVars, fxVars, fnVars, flow, cliVars, mgrVars>>

\* the worker's emit: run.emit(event), on the worker thread
WorkerAppend ==
    /\ worker.pc = "checked"
    /\ run' = [run EXCEPT !.events = @ \o Stamped(<<"flow.event">>)]
    /\ worker' = [worker EXCEPT !.pc = "appended", !.event = Stamped(<<"flow.event">>)[1]]
    /\ UNCHANGED <<task, pending, watchers>>
    /\ UNCHANGED <<evVars, escVars, judgeVars, repVars, fxVars, fnVars, flow, cliVars, mgrVars>>

\* the worker's emit: call_soon_threadsafe(create_task, _broadcast(event))
WorkerSchedule ==
    /\ worker.pc = "appended"
    /\ pending' = Append(pending, worker.event)
    /\ worker' = [worker EXCEPT !.pc = "running", !.emitted = @ + 1]
    /\ UNCHANGED <<run, task, watchers>>
    /\ UNCHANGED <<evVars, escVars, judgeVars, repVars, fxVars, fnVars, flow, cliVars, mgrVars>>

\* the flow function returns or raises
WorkerEnd(outcome) ==
    /\ worker.pc = "running"
    /\ worker' = [worker EXCEPT !.pc = outcome]
    /\ UNCHANGED <<run, task, pending, watchers>>
    /\ UNCHANGED <<evVars, escVars, judgeVars, repVars, fxVars, fnVars, flow, cliVars, mgrVars>>

\* the event loop runs a scheduled _broadcast
Deliver ==
    /\ pending # <<>>
    /\ watchers' = [w \in DOMAIN watchers |-> Append(watchers[w], Head(pending))]
    /\ pending' = Tail(pending)
    /\ UNCHANGED <<run, task, worker>>
    /\ UNCHANGED <<evVars, escVars, judgeVars, repVars, fxVars, fnVars, flow, cliVars, mgrVars>>

\* ------------------------------------------------------------------------
\* Demo orchestrator: several runs of one manager and their child services
\* ------------------------------------------------------------------------
RunIds == 1..MaxRuns

\* _service_defs
ServiceNames == {"evidence", "provider", "judge", "reputation"}

ChildrenOf(r) == {<<r, n>> : n \in ServiceNames}

NoManagedRun == [status |-> "absent", start_services |-> FALSE, keep_services |-> FALSE,
                 cancel_requested |-> FALSE, events |-> <<>>]

\* a child process is "running" once it serves its port, "unbound" while it lives
\* without it, "exited" when it ended by itself and "stopped" after stop
AliveStates == {"running", "unbound"}

\* _ServiceProcess.stop: terminate a child that has not ended
StopChild(state) == IF state \in AliveStates THEN "stopped" ELSE state

\* _ServiceProcess.start: the new process serves the port of its service unless
\* a living child of another run holds it
Spawned(name, table) ==
    IF \E d \in DOMAIN table : d[2] = name /\ table[d] = "running" THEN "unbound" ELSE "running"

\* _stop_services: nothing for start_services = False or keep_services; else
\* every process of self._services is stopped
StoppedChildren(r, table) ==
    IF ~runs[r].start_services \/ runs[r].keep_services THEN table
    ELSE [c \in DOMAIN table |-> IF c \in services THEN StopChild(table[c]) ELSE table[c]]

\* _stop_services: self._services = []
ServicesAfterStop(r) ==
    IF ~runs[r].start_services \/ runs[r].keep_services THEN services ELSE {}

Logged(r, types) == [runs EXCEPT ![r].events = @ \o types]

\* create_run, with its options
MgrCreateRun(r, start_services, keep_services, auto_run) ==
    /\ runs[r].status = "absent"
    /\ \A q \in RunIds : q < r => runs[q].status # "absent"
    /\ runs' = [runs EXCEPT ![r] = [NoManagedRun EXCEPT
                   !.status = IF auto_run THEN "queued" ELSE "pending",
                   !.start_services = start_services, !.keep_services = keep_services]]
    /\ tasks' = IF auto_run THEN [tasks EXCEPT ![r].pc = "ready"] ELSE tasks
    /\ UNCHANGED <<services, children, cancelCalls>>
    /\ UNCHANGED <<evVars, escVars, judgeVars, repVars, fxVars, fnVars, flow, cliVars, run, task, worker, pending, watchers>>

\* start of a pending run
MgrStart(r) ==
    /\ runs[r].status = "pending" /\ tasks[r].pc = "none"
    /\ runs' = [runs EXCEPT ![r].status = "queued"]
    /\ tasks' = [tasks EXCEPT ![r].pc = "ready"]
    /\ UNCHANGED <<services, children, cancelCalls>>
    /\ UNCHANGED <<evVars, escVars, judgeVars, repVars, fxVars, fnVars, flow, cliVars, run, task, worker, pending, watchers>>

\* _execute to its first suspension: running, run.started, and _start_services,
\* which replaces self._services by the run's new children and starts them all
MgrExecBegin(r) ==
    /\ tasks[r].pc = "ready" /\ ~tasks[r].must_cancel
    /\ runs' = [Logged(r, <<"run.started">>) EXCEPT ![r].status = "running"]
    /\ tasks' = [tasks EXCEPT ![r].pc = "services"]
    /\ IF runs[r].start_services
       THEN /\ services' = ChildrenOf(r)
            /\ children' = [c \in DOMAIN children |->
                               IF c \in ChildrenOf(r) THEN Spawned(c[2], children)
                               ELSE children[c]]
       ELSE UNCHANGED <<services, children>>
    /\ UNCHANGED cancelCalls
    /\ UNCHANGED <<evVars, escVars, judgeVars, repVars, fxVars, fnVars, flow, cliVars, run, task, worker, pending, watchers>>

\* the health waits returned: the flow is handed to a worker thread
MgrFlowStart(r) ==
    /\ tasks[r].pc = "services" /\ ~tasks[r].must_cancel
    /\ tasks' = [tasks EXCEPT ![r].pc = "flow"]
    /\ UNCHANGED <<runs, services, children, cancelCalls>>
    /\ UNCHANGED <<evVars, escVars, judgeVars, repVars, fxVars, fnVars, flow, cliVars, run, task, worker, pending, watchers>>

\* the end of _execute: the flow returned (complete), a health wait timed out or
\* the flow raised (error), or the task was cancelled at its suspension
\* (cancelled); in each case the terminal event, then finally: _stop_services
MgrExecEnd(r, outcome) ==
    /\ tasks[r].pc \in {"services", "flow"}
    /\ outcome = "cancelled" <=> tasks[r].must_cancel
    /\ outcome = "complete" => tasks[r].pc = "flow"
    /\ runs' = [Logged(r, <<IF outcome = "complete" THEN "run.complete" ELSE "run.error">>)
                   EXCEPT ![r].status = outcome]
    /\ tasks' = [tasks EXCEPT ![r].pc = "done"]
    /\ children' = StoppedChildren(r, children)
    /\ services' = ServicesAfterStop(r)
    /\ UNCHANGED cancelCalls
    /\ UNCHANGED <<evVars, escVars, judgeVars, repVars, fxVars, fnVars, flow, cliVars, run, task, worker, pending, watchers>>

\* cancel up to its await: the flag, the status, run.error, Task.cancel
MgrCancel(r) ==
    /\ tasks[r].pc # "none" /\ runs[r].status \notin {"absent"} \cup TerminalStatuses
    /\ cancelCalls[r] = "none"
    /\ runs' = [Logged(r, <<"run.error">>) EXCEPT ![r].cancel_requested = TRUE,
                                                   ![r].status = "cancelled"]
    /\ tasks' = [tasks EXCEPT ![r].must_cancel = TRUE]
    /\ cancelCalls' = [cancelCalls EXCEPT ![r] = "awaiting"]
    /\ UNCHANGED <<services, children>>
    /\ UNCHANGED <<evVars, escVars, judgeVars, repVars, fxVars, fnVars, flow, cliVars, run, task, worker, pending, watchers>>

\* a task cancelled before its first step ends without running _execute
MgrNeverRuns(r) ==
    /\ tasks[r].pc = "ready" /\ tasks[r].must_cancel
    /\ tasks' = [tasks EXCEPT ![r].pc = "done"]
    /\ UNCHANGED <<runs, services, children, cancelCalls>>
    /\ UNCHANGED <<evVars, escVars, judgeVars, repVars, fxVars, fnVars, flow, cliVars, run, task, worker, pending, watchers>>

\* cancel after its await: the task has ended, cancel returns True
MgrCancelReturn(r) ==
    /\ cancelCalls[r] = "awaiting" /\ tasks[r].pc = "done"
    /\ cancelCalls' = [cancelCalls EXCEPT ![r] = "true"]
    /\ UNCHANGED <<runs, tasks, services, children>>
    /\ UNCHANGED <<evVars, escVars, judgeVars, repVars, fxVars, fnVars, flow, cliVars, run, task, worker, pending, watchers>>

\* a child that could not bind its port exits by itself
ChildExits(c) ==
    /\ children[c] = "unbound"
    /\ children' = [children EXCEPT ![c] = "exited"]
    /\ UNCHANGED <<runs, tasks, services, cancelCalls>>
    /\ UNCHANGED <<evVars, escVars, judgeVars, repVars, fxVars, fnVars, flow, cliVars, run, task, worker, pending, watchers>>

\* ------------------------------------------------------------------------
\* Dry-run escrow backend: several clients on one mock store
\* ------------------------------------------------------------------------
ClientIds == 1..MaxClients

\* _mock_block_start: the chain's block number or the wall clock, read when asked
ClockValues == BlockStart..(BlockStart + MaxClock)

IdleClient == [pc |-> "ready", value |-> 0, block |-> 0, start |-> 0]

\* _init_mock_db, the SELECT: a client is constructed again on the same store
ClientInitRead(c, block_start) ==
    /\ clients[c].pc = "ready"
    /\ clients' = [clients EXCEPT ![c] = [IdleClient EXCEPT !.pc = "init", !.value = mockBlock,
                                                           !.start = block_start]]
    /\ UNCHANGED <<lastPoll, filers, senders, txCount, signedTxs, escVars, evVars, judgeVars, repVars, fxVars, fnVars, flow, runVars>>

\* _init_mock_db, the UPDATE: the counter is raised to block_start when the
\* value read lies below it
ClientInitWrite(c) ==
    /\ clients[c].pc = "init"
    /\ mockBlock' = IF clients[c].value < clients[c].start THEN clients[c].start ELSE mockBlock
    /\ clients' = [clients EXCEPT ![c] = IdleClient]
    /\ UNCHANGED <<lastPoll, filers, senders, txCount, signedTxs, mockDisputeId, events, disputes, evVars, judgeVars, repVars, fxVars, fnVars, flow, runVars>>

\* _mock_next_counter("block"), the SELECT
NextCounterRead(c) ==
    /\ clients[c].pc = "ready"
    /\ Len(events) < MaxEmissions
    /\ clients' = [clients EXCEPT ![c].pc = "read", ![c].value = mockBlock]
    /\ UNCHANGED <<lastPoll, filers, senders, txCount, signedTxs, escVars, evVars, judgeVars, repVars, fxVars, fnVars, flow, runVars>>

\* _mock_next_counter("block"), the UPDATE and commit: value + 1
NextCounterWrite(c) ==
    /\ clients[c].pc = "read"
    /\ mockBlock' = clients[c].value + 1
    /\ clients' = [clients EXCEPT ![c].pc = "emit", ![c].block = clients[c].value + 1]
    /\ UNCHANGED <<lastPoll, filers, senders, txCount, signedTxs, mockDisputeId, events, disputes, evVars, judgeVars, repVars, fxVars, fnVars, flow, runVars>>

\* commit_evidence_hash: _mock_emit_event with the block number just drawn
ClientEmit(c, a) ==
    /\ clients[c].pc = "emit"
    /\ events' = Append(events, CommitEvidenceEvent(a, Zero32, Provider, clients[c].block))
    /\ clients' = [clients EXCEPT ![c] = IdleClient]
    /\ UNCHANGED <<lastPoll, filers, senders, txCount, signedTxs, mockBlock, mockDisputeId, disputes, evVars, judgeVars, repVars, fxVars, fnVars, flow, runVars>>

NoPoll == [done |-> FALSE, name |-> "", from_block |-> 0, to_block |-> Latest,
           seen |-> 0, rows |-> <<>>]

\* one call of poll_events on the store as it is; a behaviour records one call
Poll(name, from_block, to_block) ==
    /\ ~lastPoll.done
    /\ lastPoll' = [done |-> TRUE, name |-> name, from_block |-> from_block, to_block |-> to_block,
                  seen |-> Len(events), rows |-> poll_rows(name, from_block, to_block)]
    /\ UNCHANGED <<clients, filers, senders, txCount, signedTxs, escVars, evVars, judgeVars, repVars, fxVars, fnVars, flow, runVars>>

\* ------------------------------------------------------------------------
\* Dry-run escrow backend: file_dispute by several clients on one mock store
\* ------------------------------------------------------------------------
IdleFiler == [pc |-> "ready", value |-> 0, id |-> 0]

\* the file_dispute calls that have begun and not returned
Filing == {c \in ClientIds : filers[c].pc # "ready"}

\* _mock_next_counter("dispute_id", start=1), the SELECT; 0 stands for no row
FileRead(c) ==
    /\ filers[c].pc = "ready"
    /\ Len(events) + Cardinality(Filing) < MaxFilings
    /\ filers' = [filers EXCEPT ![c] = [pc |-> "read", value |-> mockDisputeId, id |-> 0]]
    /\ UNCHANGED <<clients, lastPoll, senders, txCount, signedTxs, escVars, evVars, judgeVars, repVars, fxVars, fnVars, flow, runVars>>

\* _mock_next_counter("dispute_id"), the write: INSERT of 1 when the SELECT
\* found no row (it raises when the row has been inserted since), otherwise
\* UPDATE to the value read plus one
FileWrite(c) ==
    /\ filers[c].pc = "read"
    /\ IF filers[c].value = 0 /\ mockDisputeId # 0
       THEN /\ filers' = [filers EXCEPT ![c] = IdleFiler]
            /\ UNCHANGED mockDisputeId
       ELSE /\ mockDisputeId' = filers[c].value + 1
            /\ filers' = [filers EXCEPT ![c].pc = "put", ![c].id = filers[c].value + 1]
    /\ UNCHANGED <<clients, lastPoll, senders, txCount, signedTxs, mockBlock, events, disputes, evVars, judgeVars, repVars, fxVars, fnVars, flow, runVars>>

\* _mock_put_dispute with the id drawn; the client's number is the tx_id
FilePut(c) ==
    /\ filers[c].pc = "put"
    /\ disputes' = mock_put_dispute(disputes, filers[c].id,
                                    DisputeRow(c, Consumer, Provider, 1000, Zero32))
    /\ filers' = [filers EXCEPT ![c].pc = "emit"]
    /\ UNCHANGED <<clients, lastPoll, senders, txCount, signedTxs, mockBlock, mockDisputeId, events, evVars, judgeVars, repVars, fxVars, fnVars, flow, runVars>>

\* the block of the transaction and _mock_emit_event("DisputeFiled")
FileEmit(c) ==
    /\ filers[c].pc = "emit"
    /\ mockBlock' = mockBlock + 1
    /\ events' = Append(events,
           MockEvent("DisputeFiled", mockBlock + 1, MockTxHash("file-dispute", mockBlock + 1),
                     [disputeId |-> filers[c].id, plaintiff |-> Consumer, defendant |-> Provider]))
    /\ filers' = [filers EXCEPT ![c] = IdleFiler]
    /\ UNCHANGED <<clients, lastPoll, senders, txCount, signedTxs, mockDisputeId, disputes, evVars, judgeVars, repVars, fxVars, fnVars, flow, runVars>>


\* ------------------------------------------------------------------------
\* Live escrow backend: _send_tx by several callers signing with one account
\* ------------------------------------------------------------------------
IdleSender == [pc |-> "ready", nonce |-> 0]

\* the transactions the node holds unmined: sent by a caller that waits for
\* the receipt
PendingNonces == {senders[c].nonce : c \in {x \in ClientIds : senders[x].pc = "sent"}}

\* _send_tx: nonce = w3.eth.get_transaction_count(address)
SendRead(c) ==
    /\ senders[c].pc = "ready"
    /\ Len(signedTxs) < MaxSends
    /\ senders' = [senders EXCEPT ![c] = [pc |-> "read", nonce |-> txCount]]
    /\ UNCHANGED <<clients, lastPoll, filers, txCount, signedTxs, escVars, evVars, judgeVars, repVars, fxVars, fnVars, flow, runVars>>

\* _send_tx: build_transaction with the nonce read, account.sign_transaction
SendSign(c) ==
    /\ senders[c].pc = "read"
    /\ signedTxs' = Append(signedTxs, [by |-> c, nonce |-> senders[c].nonce])
    /\ senders' = [senders EXCEPT ![c].pc = "signed"]
    /\ UNCHANGED <<clients, lastPoll, filers, txCount, escVars, evVars, judgeVars, repVars, fxVars, fnVars, flow, runVars>>

\* _send_tx: send_raw_transaction; the node takes a transaction whose nonce is
\* neither used by a mined transaction nor by one it holds, and answers any
\* other with an error, which the call raises
SendRaw(c) ==
    /\ senders[c].pc = "signed"
    /\ senders' = IF senders[c].nonce >= txCount /\ senders[c].nonce \notin PendingNonces
                  THEN [senders EXCEPT ![c].pc = "sent"]
                  ELSE [senders EXCEPT ![c] = IdleSender]
    /\ UNCHANGED <<clients, lastPoll, filers, txCount, signedTxs, escVars, evVars, judgeVars, repVars, fxVars, fnVars, flow, runVars>>

\* the transaction is mined and wait_for_transaction_receipt returns
SendMined(c) ==
    /\ senders[c].pc = "sent"
    /\ senders[c].nonce = txCount
    /\ txCount' = txCount + 1
    /\ senders' = [senders EXCEPT ![c] = IdleSender]
    /\ UNCHANGED <<clients, lastPoll, filers, signedTxs, escVars, evVars, judgeVars, repVars, fxVars, fnVars, flow, runVars>>

\* ------------------------------------------------------------------------
\* Initial state
\* ------------------------------------------------------------------------
InitServices ==
    /\ clauses = {}
    /\ receipts = {}
    /\ anchors = {}
    /\ req = [s \in Slots |-> IdleReq]
    /\ response = NoResponse
    /\ flow = [f \in Flows |-> NewFlow]
    /\ mockBlock = BlockStart
    /\ mockDisputeId = 0
    /\ events = <<>>
    /\ disputes = {}
    /\ config \in [dryRun : BOOLEAN, authorized : BOOLEAN]
    /\ verdicts = {}
    /\ cursor = 0
    /\ judge = IdleJudge
    /\ rulingCalls = [d \in LedgerIds |-> 0]
    /\ faults = 0
    /\ dispatched = {}
    /\ scores = <<>>
    /\ scoreEvents = <<>>
    /\ repCursor = 0
    /\ rep = IdleRep
    /\ replayed = FALSE
    /\ run = NoRunYet
    /\ task = IdleTask
    /\ worker = IdleWorker
    /\ pending = <<>>
    /\ watchers = <<>>
    /\ runs = [r \in RunIds |-> NoManagedRun]
    /\ tasks = [r \in RunIds |-> IdleTask]
    /\ services = {}
    /\ children = [c \in RunIds \X ServiceNames |-> "none"]
    /\ cancelCalls = [r \in RunIds |-> "none"]
    /\ clients = [c \in ClientIds |-> IdleClient]
    /\ lastPoll = NoPoll
    /\ filers = [c \in ClientIds |-> IdleFiler]
    /\ senders = [c \in ClientIds |-> IdleSender]
    /\ txCount = 0
    /\ signedTxs = <<>>

\* ------------------------------------------------------------------------
\* extract_facts and the handler's decision on given inputs
\* ------------------------------------------------------------------------
RateRule(limit) == [metric |-> "requests_per_minute", operator |-> "<=", value |-> limit]

BurstSize == RateLimit + 1

FactClauses ==
    {MkClause("c1", "a1", sla, abuse) :
        sla \in SlaChoices, abuse \in {<<>>, <<RateRule(RateLimit)>>, <<RateRule(1)>>}}

FactReceipt(et, ts, q) == [eventType |-> et, timestamp |-> ts, requestId |-> q]

FactReceiptInputs ==
    {FactReceipt(et, ts, q) : et \in {"request", "response"}, ts \in {1000, 5000}, q \in {1, 2}}

TimeMarks == {0, 30000, 59999, 60000, 89999}

\* BurstSize requests, the first k at t0 and the others at t1
Burst(k, t0, t1) ==
    [i \in 1..BurstSize |-> FactReceipt("request", IF i <= k THEN t0 ELSE t1, i)]

\* bursts that lie within one window of a minute
BurstInputs ==
    {Burst(k, p[1], p[2]) :
        k \in {0, 1, BurstSize \div 2, BurstSize - 1, BurstSize},
        p \in {q \in TimeMarks \X TimeMarks : q[2] >= q[1] /\ q[2] - q[1] < MinuteMs}}

NoOut == [done |-> FALSE,
          extracted |-> [facts |-> [latency_ms |-> 0, peak_requests_per_minute |-> 0,
                                    request_count |-> 0, response_count |-> 0],
                         reasonCodes |-> <<>>, winner |-> None],
          decision |-> [reasonCodes |-> <<>>, flags |-> {}, winner |-> "", confidence |-> 0,
                        consulted |-> {}]]

\* no call of a protocol function is under check
NoCall == fnArgs = <<>> /\ fnResult = NoResult

InitIdle ==
    /\ InitServices
    /\ fxClause = MkClause("c1", "a1", <<>>, <<>>)
    /\ fxReceipts = <<>>
    /\ fxOut = NoOut

Init == InitIdle /\ NoCall

InitFacts ==
    /\ InitServices
    /\ NoCall
    /\ config.dryRun /\ ~config.authorized
    /\ fxClause \in FactClauses
    /\ fxReceipts \in {<<>>} \cup BurstInputs
    /\ fxOut = NoOut

\* one more receipt in the evidence, before the extraction
FxAppend(r) ==
    /\ ~fxOut.done
    /\ Len(fxReceipts) < MaxFactReceipts
    /\ fxReceipts' = Append(fxReceipts, r)
    /\ UNCHANGED <<fxClause, fxOut, evVars, escVars, judgeVars, repVars, runVars, cliVars, fnVars, flow>>

\* extract_facts on the evidence, then the handler's decision for verified evidence
FxExtract(reply) ==
    /\ ~fxOut.done
    /\ LET e == extract_facts(fxClause, fxReceipts)
       IN fxOut' = [done |-> TRUE, extracted |-> e,
                    decision |-> Decide(TRUE, {}, e, reply, Consumer, Provider)]
    /\ UNCHANGED <<fxClause, fxReceipts, evVars, escVars, judgeVars, repVars, runVars, cliVars, fnVars, flow>>

FactsNext ==
    \/ \E r \in FactReceiptInputs : FxAppend(r)
    \/ \E reply \in LlmReplies : FxExtract(reply)

SpecFacts == InitFacts /\ [][FactsNext]_vars

\* ------------------------------------------------------------------------
\* POST /receipts requests running concurrently on the evidence service
\* ------------------------------------------------------------------------
RequestInputs == ReceiptInputsOver({Body("request", 1000)}, {"none"})

ReceiptsNext ==
    \/ \E s \in Slots : \E r \in RequestInputs : ReqStart(s, r)
    \/ \E s \in Slots : ReqRead(s)
    \/ \E s \in Slots : ReqVerify(s)
    \/ \E s \in Slots : ReqInsert(s)
    \/ \E s \in Slots : ReqFinish(s)

SpecReceipts == Init /\ [][ReceiptsNext]_vars

\* ------------------------------------------------------------------------
\* C2, C3: the receipt chain of an agreement
\* ------------------------------------------------------------------------
ChainInv ==
    \A a \in AgreementIds :
        LET rs == list_receipts(receipts, a)
        IN /\ Len(rs) = Cardinality({r \in receipts : r.agreementId = a})
           /\ \A i \in 1..Len(rs) :
                /\ rs[i].sequence = i - 1
                /\ i = 1 => rs[i].prevHash = ZeroHash
                /\ i > 1 => rs[i].prevHash = rs[i - 1].receiptHash

\* C2: in every reachable state the receipts stored for an agreement have the
\* sequences 0..n-1 without gap or duplicate, the first has prevHash "0x0", each
\* later one has the receiptHash of its predecessor as prevHash, and no step
\* modifies or removes a stored receipt.
C2_ReceiptChainUnbroken == [](ChainInv) /\ [][receipts \subseteq receipts']_vars

C2_Witness == \E a \in AgreementIds : Len(list_receipts(receipts, a)) >= 2

\* two finished requests that carried different receipts for the same
\* (agreementId, sequence), each acceptable when it arrived: they overlapped
ConcurrentPair(s, t) ==
    /\ s # t
    /\ req[s].pc = "done" /\ req[t].pc = "done"
    /\ req[s].r # req[t].r
    /\ req[s].r.agreementId = req[t].r.agreementId
    /\ req[s].r.sequence = req[t].r.sequence
    /\ req[s].okAtStart /\ req[t].okAtStart

\* C3: of two concurrent POST /receipts requests with different receipts for the
\* same (agreementId, sequence), under every interleaving of their read, verify
\* and insert steps, exactly one is answered 200 and stored and the other is
\* answered 400 and not stored.
C3_ExactlyOneSucceeds ==
    \A s \in Slots : \A t \in Slots :
        ConcurrentPair(s, t) =>
            /\ {req[s].status, req[t].status} = {200, 400}
            /\ (req[s].r \in receipts) <=> (req[s].status = 200)
            /\ (req[t].r \in receipts) <=> (req[t].status = 200)

C3_Witness == \E s \in Slots : \E t \in Slots : ConcurrentPair(s, t)

\* ------------------------------------------------------------------------
\* The judge service over the evidence service and the escrow backend
\* ------------------------------------------------------------------------
JudgeClauseInputs == {MkClause("c1", a, sla, <<>>) : a \in AgreementIds, sla \in SlaChoices}
\* an agent appending to the chain it has read: the next sequence, linked to the
\* last stored receipt, under a stored clause hash
JudgeReceiptInputs ==
    UNION {
      LET rs == list_receipts(receipts, a)
          n == Len(rs)
          prev == IF n = 0 THEN ZeroHash ELSE rs[n].receiptHash
      IN {MkReceipt(n + 1, a, c.clauseHash, n, body, prev) :
             c \in get_clause_by_agreement(clauses, a),
             body \in IF n < MaxReceiptIds THEN Bodies ELSE {}}
      : a \in AgreementIds}
EvidenceChoices == {Zero32} \cup {a.rootHash : a \in anchors}

JudgeNext ==
    \/ \E c \in JudgeClauseInputs : PostClause(c)
    \/ \E r \in JudgeReceiptInputs : PostReceipt(r)
    \/ \E a \in AgreementIds : Anchor(a)
    \/ \E e \in EvidenceChoices : FileDispute(7, 1000, e)
    \/ JudgePoll
    \/ JudgeLoop
    \/ \E reply \in LlmReplies : \E fetched \in BOOLEAN : JudgeDecide(reply, fetched)
    \/ JudgeSubmit
    \/ JudgeStore
    \/ JudgeRaise
    \/ JudgeRestart

SpecJudge == Init /\ [][JudgeNext]_vars

\* C1: across replayed events, handler failures and restarts, each disputeId has at
\* most one stored verdict and submit_ruling is invoked at most once for it.
C1_AtMostOneRuling ==
    \A d \in DisputeIds :
        /\ Cardinality({v \in verdicts : v.disputeId = d}) <= 1
        /\ rulingCalls[d] <= 1

\* C5: a run of the handler calls submit_ruling, and its verdict is stored with
\* status submitted and a submitTxHash, exactly when the confidence is at least
\* 0.70 and the judge account is the contract's judge or the escrow is dry-run;
\* every other verdict is stored as manual_review with the needs_manual_review
\* flag and no submitTxHash.
C5_SubmissionPolicy ==
    LET allowed(c) == c >= 70 /\ (config.authorized \/ config.dryRun)
    IN /\ judge.pc = "store" =>
              /\ judge.run.rulingCalled <=> allowed(judge.run.verdict.confidence)
              /\ judge.run.rulingCalled <=> judge.run.verdict.status = "submitted"
       /\ \A v \in verdicts :
              /\ v.status = "submitted" <=> allowed(v.confidence)
              /\ v.status = "submitted" =>
                     v.submitTxHash # NoTx /\ ManualReviewFlag \notin v.flags
              /\ v.status # "submitted" =>
                     /\ v.status = "manual_review"
                     /\ ManualReviewFlag \in v.flags
                     /\ v.submitTxHash = NoTx

C5_Witness ==
    /\ config.dryRun /\ ~config.authorized
    /\ \E v \in verdicts : v.status = "submitted" /\ v.confidence = 70

\* C6: when the integrity check of a run fails, the run's verdict has reason code
\* hash_mismatch, the defendant as winner and confidence 0.99, and the run has
\* consulted neither the fact extractor nor the AI panel.
C6_IntegrityFailure ==
    (judge.pc \in {"submit", "store"} /\ ~judge.run.ok) =>
        LET v == judge.run.verdict
        IN /\ \E i \in 1..Len(v.reasonCodes) : v.reasonCodes[i] = "hash_mismatch"
           /\ v.winner = v.defendant
           /\ v.confidence = 99
           /\ judge.run.consulted = {}

C6_Witness == judge.pc = "store" /\ ~judge.run.ok

\* ------------------------------------------------------------------------
\* The reputation watcher over the escrow backend
\* ------------------------------------------------------------------------
EventCount(name) == Cardinality({i \in DOMAIN events : events[i].name = name})

\* commit_evidence_hash called on the escrow backend
CommitEvidence(a, root) ==
    /\ EventCount("EvidenceCommitted") < MaxAnchors
    /\ mockBlock' = mockBlock + 1
    /\ events' = Append(events, CommitEvidenceEvent(a, root, Provider, mockBlock + 1))
    /\ UNCHANGED <<mockDisputeId, disputes, evVars, judgeVars, repVars, fxVars, fnVars, flow, cliVars, runVars>>

\* submit_ruling called on the escrow backend, for a dispute that was filed
SubmitRuling(id, winner) ==
    /\ EventCount("RulingSubmitted") < MaxRulings
    /\ mock_get_dispute(disputes, id) # {}
    /\ MockSubmitRuling(id, winner)
    /\ UNCHANGED <<evVars, judgeVars, repVars, fxVars, fnVars, flow, cliVars, runVars>>

ReputationNext ==
    \/ \E a \in AgreementIds : CommitEvidence(a, Zero32)
    \/ \E txId \in {0, 7} : FileDispute(txId, 1000, Zero32)
    \/ \E id \in DisputeIds : \E w \in {Consumer, Provider} : SubmitRuling(id, w)
    \/ RepPollRulings
    \/ RepPollCommits
    \/ RepStep
    \/ RepFinish
    \/ RepCrash

SpecReputation == Init /\ [][ReputationNext]_vars

RECURSIVE DeltaSum(_, _)
DeltaSum(table, actor) ==
    IF table = <<>> THEN 0
    ELSE (IF Head(table).actor = actor THEN Head(table).delta ELSE 0) + DeltaSum(Tail(table), actor)

RowsOfKey(table, key) == {i \in 1..Len(table) : table[i].key = key}

\* C4: every event_key has at most one history entry however often its event is
\* applied, each actor's score is 100 plus the deltas of its entries (so an event
\* changes the score exactly once), the entry of a ruling-win key credits +2 to
\* the winner, and no step removes or changes a stored entry.
C4_ScoringIdempotent ==
    /\ [](/\ \A i \in 1..Len(scoreEvents) :
              /\ Cardinality(RowsOfKey(scoreEvents, scoreEvents[i].key)) = 1
              /\ scoreEvents[i].key[1] = "ruling-win" =>
                     /\ scoreEvents[i].delta = 2
                     /\ scoreEvents[i].actor = to_did(scoreEvents[i].key[3])
           /\ \A actor \in DOMAIN scores : scores[actor] = 100 + DeltaSum(scoreEvents, actor))
    /\ [][/\ Len(scoreEvents') >= Len(scoreEvents)
          /\ SubSeq(scoreEvents', 1, Len(scoreEvents)) = scoreEvents]_vars

\* a ruling-win entry is stored and an event has been applied again on top of it
C4_Witness ==
    /\ replayed
    /\ \E i \in 1..Len(scoreEvents) : scoreEvents[i].key[1] = "ruling-win"

\* ------------------------------------------------------------------------
\* C7, C8: the deterministic winner
\* ------------------------------------------------------------------------
HasRequest(rs) == \E i \in 1..Len(rs) : rs[i].eventType = "request"

\* C7: extract_facts returns plaintiff exactly when it emitted a reason code,
\* defendant exactly when it emitted none and a request receipt is present, and
\* None otherwise; the handler gives the dispute's plaintiff or defendant address
\* as winner with confidence 0.95.
C7_DeterministicWinner ==
    fxOut.done =>
        LET e == fxOut.extracted
            d == fxOut.decision
        IN /\ e.winner = "plaintiff" <=> e.reasonCodes # <<>>
           /\ e.winner = "defendant" <=> (e.reasonCodes = <<>> /\ HasRequest(fxReceipts))
           /\ e.winner = None <=> (e.reasonCodes = <<>> /\ ~HasRequest(fxReceipts))
           /\ e.winner = "plaintiff" => (d.winner = Consumer /\ d.confidence = 95)
           /\ e.winner = "defendant" => (d.winner = Provider /\ d.confidence = 95)

C7_Witness ==
    /\ fxOut.done /\ fxOut.extracted.winner = "defendant"
    /\ Len(fxReceipts) = 2

RequestTimesOf(rs) == {rs[i].timestamp : i \in {j \in 1..Len(rs) : rs[j].eventType = "request"}}

RequestCountOf(rs) == Cardinality({j \in 1..Len(rs) : rs[j].eventType = "request"})

HasRateRule(clause) ==
    \E i \in 1..Len(clause.abuseRules) : clause.abuseRules[i] = RateRule(RateLimit)

RateLimitRuled ==
    /\ \E i \in 1..Len(fxOut.extracted.reasonCodes) :
          fxOut.extracted.reasonCodes[i] = "clause_violated:rate_limit"
    /\ fxOut.extracted.winner = "plaintiff"

\* C8 as stated: with the rule requests_per_minute <= 60 and 61 request receipts
\* whose timestamps lie within one window of 60 000 ms wherever it starts,
\* extract_facts emits clause_violated:rate_limit and returns plaintiff.
C8_AnyWindow ==
    (/\ fxOut.done /\ HasRateRule(fxClause)
     /\ RequestCountOf(fxReceipts) = RateLimit + 1
     /\ \A t \in RequestTimesOf(fxReceipts) : \A u \in RequestTimesOf(fxReceipts) : u - t < 60000)
    => RateLimitRuled

\* C8, amended: the same when the 61 timestamps fall into one minute bucket, that
\* is, have the same quotient by 60 000.
C8_SameBucket ==
    (/\ fxOut.done /\ HasRateRule(fxClause)
     /\ RequestCountOf(fxReceipts) = RateLimit + 1
     /\ \A t \in RequestTimesOf(fxReceipts) : \A u \in RequestTimesOf(fxReceipts) :
           u \div 60000 = t \div 60000)
    => RateLimitRuled

\* a burst spread over two timestamps of one bucket has been judged
C8_Witness ==
    /\ fxOut.done /\ HasRateRule(fxClause)
    /\ RequestCountOf(fxReceipts) = RateLimit + 1
    /\ RequestTimesOf(fxReceipts) = {30000, 59999}

\* ------------------------------------------------------------------------
\* The orchestrator: a run, its task, the worker thread and the subscribers
\* ------------------------------------------------------------------------
RunsNext ==
    \/ \E auto_run \in BOOLEAN : CreateRun(auto_run)
    \/ Start
    \/ Cancel
    \/ Subscribe
    \/ ExecNeverRuns
    \/ ExecBegin
    \/ ExecFlowStart
    \/ ExecComplete
    \/ ExecError
    \/ ExecCancelled
    \/ WorkerCheck
    \/ WorkerAppend
    \/ WorkerSchedule
    \/ \E outcome \in {"returned", "raised"} : WorkerEnd(outcome)
    \/ Deliver

SpecRuns == Init /\ [][RunsNext]_vars

StatusStep == <<run.status, run'.status>>

\* C9 as stated: the status of a run changes only along
\* pending -> queued -> running -> {complete, error, cancelled}, and a status of
\* complete, error or cancelled never changes.
C9_StatusChain ==
    [][(run.status # "absent" /\ run'.status # run.status) =>
          StatusStep \in {<<"pending", "queued">>, <<"queued", "running">>,
                          <<"running", "complete">>, <<"running", "error">>,
                          <<"running", "cancelled">>}]_vars

\* C9, amended: as stated, with the cancellation of a queued run as one more
\* step, queued -> cancelled.
C9_StatusChainOrCancelQueued ==
    [][(run.status # "absent" /\ run'.status # run.status) =>
          StatusStep \in {<<"pending", "queued">>, <<"queued", "running">>,
                          <<"queued", "cancelled">>,
                          <<"running", "complete">>, <<"running", "error">>,
                          <<"running", "cancelled">>}]_vars

\* a run cancelled while its flow ran: the task has handled the cancellation and
\* the worker went on to its end
C9_Witness ==
    /\ run.status = "cancelled" /\ task.pc = "done"
    /\ worker.pc = "returned" /\ worker.emitted > 0

IsPrefix(s, t) == Len(s) <= Len(t) /\ SubSeq(t, 1, Len(s)) = s

\* C10: what a subscriber has been sent is always the run's event log up to some
\* point: every event once, in log order, none left out before a later one.
C10_SubscribersSeeTheLog ==
    \A w \in DOMAIN watchers : IsPrefix(watchers[w], run.events)

\* ------------------------------------------------------------------------
\* C11, C12: cancellation and teardown with several runs
\* ------------------------------------------------------------------------
ManagerNext ==
    \/ \E r \in RunIds : \E ss \in BOOLEAN : \E ks \in BOOLEAN : \E auto_run \in BOOLEAN :
          MgrCreateRun(r, ss, ks, auto_run)
    \/ \E r \in RunIds : MgrStart(r)
    \/ \E r \in RunIds : MgrExecBegin(r)
    \/ \E r \in RunIds : MgrFlowStart(r)
    \/ \E r \in RunIds : \E outcome \in TerminalStatuses : MgrExecEnd(r, outcome)
    \/ \E r \in RunIds : MgrCancel(r)
    \/ \E r \in RunIds : MgrNeverRuns(r)
    \/ \E r \in RunIds : MgrCancelReturn(r)
    \/ \E c \in RunIds \X ServiceNames : ChildExits(c)

SpecManager == Init /\ [][ManagerNext]_vars

HasEvent(r, type) == \E i \in 1..Len(runs[r].events) : runs[r].events[i] = type

NoChildAlive(r) == \A c \in ChildrenOf(r) : children[c] \notin AliveStates

\* C11: once cancel has returned True for a run, the run is cancelled, its log
\* holds a run.error event, its task has ended, and unless keep_services was set
\* none of the children spawned for it is alive.
C11_CancelTearsDown ==
    \A r \in RunIds :
        cancelCalls[r] = "true" =>
            /\ runs[r].status = "cancelled"
            /\ HasEvent(r, "run.error")
            /\ tasks[r].pc = "done"
            /\ runs[r].keep_services \/ NoChildAlive(r)

\* C12: teardown stops exactly the children of its own run: a child is stopped
\* only when its run is terminal, and a run that has ended without keep_services
\* has no living child.
C12_TeardownOwnChildren ==
    \A r \in RunIds :
        /\ (\E c \in ChildrenOf(r) : children[c] = "stopped") =>
               runs[r].status \in TerminalStatuses
        /\ (runs[r].status \in TerminalStatuses /\ tasks[r].pc = "done"
               /\ ~runs[r].keep_services) => NoChildAlive(r)

\* ------------------------------------------------------------------------
\* C13: block numbers of the dry-run backend under several clients
\* ------------------------------------------------------------------------
ClientsNext ==
    \/ \E c \in ClientIds : \E block_start \in ClockValues : ClientInitRead(c, block_start)
    \/ \E c \in ClientIds : ClientInitWrite(c)
    \/ \E c \in ClientIds : NextCounterRead(c)
    \/ \E c \in ClientIds : NextCounterWrite(c)
    \/ \E c \in ClientIds : \E a \in AgreementIds : ClientEmit(c, a)

SpecClients == Init /\ [][ClientsNext]_vars

\* C13: every event has a block number strictly greater than that of every event
\* recorded before it, and the block counter never decreases.
C13_BlocksStrictlyIncrease ==
    /\ [](\A i \in 1..Len(events) : \A j \in 1..Len(events) :
             i < j => events[i].blockNumber < events[j].blockNumber)
    /\ [][mockBlock' >= mockBlock]_vars

\* ------------------------------------------------------------------------
\* C14: poll_events over events recorded by several clients
\* ------------------------------------------------------------------------
PollBlocks == (BlockStart + 1)..(BlockStart + 2)

PollNext ==
    \/ \E c \in ClientIds : NextCounterRead(c)
    \/ \E c \in ClientIds : NextCounterWrite(c)
    \/ \E c \in ClientIds : \E a \in AgreementIds : ClientEmit(c, a)
    \/ FileDispute(7, 1000, Zero32)
    \/ \E name \in {"EvidenceCommitted", "DisputeFiled"} : \E from_block \in PollBlocks :
          \E to_block \in {Latest} \cup {ToBlock(n) : n \in PollBlocks} :
             Poll(name, from_block, to_block)

SpecPoll == Init /\ [][PollNext]_vars

RowsAsked ==
    {i \in 1..lastPoll.seen :
        /\ events[i].name = lastPoll.name
        /\ events[i].blockNumber >= lastPoll.from_block
        /\ lastPoll.to_block.latest \/ events[i].blockNumber <= lastPoll.to_block.n}

\* C14: a poll returns each recorded event of the name with a block number in
\* [from_block, to_block] once and no other, in ascending order of (block
\* number, insertion index); and the recorded events only ever grow at the end.
C14_PollExactAndOrdered ==
    /\ [](lastPoll.done =>
            /\ {lastPoll.rows[k] : k \in 1..Len(lastPoll.rows)} = RowsAsked
            /\ Len(lastPoll.rows) = Cardinality(RowsAsked)
            /\ \A k \in 1..Len(lastPoll.rows) : \A l \in 1..Len(lastPoll.rows) :
                  k < l =>
                     \/ events[lastPoll.rows[k]].blockNumber < events[lastPoll.rows[l]].blockNumber
                     \/ /\ events[lastPoll.rows[k]].blockNumber = events[lastPoll.rows[l]].blockNumber
                        /\ lastPoll.rows[k] < lastPoll.rows[l])
    /\ [][IsPrefix(events, events')]_vars

\* a poll restricted by to_block has returned two rows in another order than
\* they were inserted, and left a row of the name out
C14_Witness ==
    /\ lastPoll.done /\ ~lastPoll.to_block.latest
    /\ Len(lastPoll.rows) = 2 /\ lastPoll.rows[1] > lastPoll.rows[2]
    /\ \E i \in 1..lastPoll.seen : events[i].name = lastPoll.name /\ i \notin RowsAsked

\* ------------------------------------------------------------------------
\* C15: rulings accepted by the dry-run backend
\* ------------------------------------------------------------------------
RulingEventsOf(d) ==
    {i \in 1..Len(events) : events[i].name = "RulingSubmitted" /\ events[i].args.disputeId = d}

\* C15: a dispute has at most one RulingSubmitted event, and the winner recorded
\* for a resolved dispute is never changed by a later submit_ruling.
C15_OneRulingPerDispute ==
    /\ [](\A d \in DisputeIds : Cardinality(RulingEventsOf(d)) <= 1)
    /\ [][\A d \in DisputeIds : \A row \in mock_get_dispute(disputes, d) :
             row[9] => \A next \in mock_get_dispute(disputes', d) : next[10] = row[10]]_vars

\* ------------------------------------------------------------------------
\* C16: the scores of a ruling
\* ------------------------------------------------------------------------
HasEntry(key, reason, delta) ==
    \E i \in 1..Len(scoreEvents) :
        /\ scoreEvents[i].key = key
        /\ scoreEvents[i].reason = reason /\ scoreEvents[i].delta = delta

\* the plaintiff of a dispute filed on the dry-run backend
IsPlaintiff(d, address) == \E row \in mock_get_dispute(disputes, d) : row[2] = address

\* C16: when a tick of the watcher has ended by itself, every ruling whose loser
\* was debited has credited +2 to its winner and -5 to its loser, and has debited
\* the loser a further -3 exactly when the loser is the plaintiff of the dispute.
C16_RulingScores ==
    (rep.pc = "idle" /\ rep.outcome \in {"returned", "raised"}) =>
        \A i \in 1..Len(events) :
            LET d == events[i].args.disputeId
                winner == events[i].args.winner
                loser == events[i].args.loser
            IN (events[i].name = "RulingSubmitted"
                  /\ \E k \in 1..Len(scoreEvents) : scoreEvents[k].key = <<"ruling-lose", d, loser>>)
               => /\ HasEntry(<<"ruling-win", d, winner>>, "won_dispute", 2)
                  /\ HasEntry(<<"ruling-lose", d, loser>>, "lost_dispute", -5)
                  /\ IsPlaintiff(d, loser) <=>
                        HasEntry(<<"ruling-filer-loss", d, loser>>, "lost_as_filer", -3)

\* ------------------------------------------------------------------------
\* The evidence service serving whole requests: clauses, receipts, anchors
\* ------------------------------------------------------------------------
\* request receipts, well-formed or with a wrong receiptHash or a schema violation
EvidenceReceiptInputs == ReceiptInputsOver({Body("request", 1000)}, {"none", "hash", "schema"})

EvidenceNext ==
    \/ \E c \in ClauseInputs : PostClause(c)
    \/ \E r \in EvidenceReceiptInputs : PostReceipt(r)
    \/ \E a \in AgreementIds : Anchor(a)

SpecEvidence == Init /\ [][EvidenceNext]_vars

\* C17: once an agreement has a clause, no step replaces, alters or removes the
\* clause that GET /clauses/{agreementId} returns for it.
C17_ClauseImmutable ==
    [][\A a \in AgreementIds :
          get_clause_by_agreement(clauses, a) # {}
             => get_clause_by_agreement(clauses', a) = get_clause_by_agreement(clauses, a)]_vars

\* C18: the receipts stored for one agreement all carry the same chainId,
\* contractAddress and clauseHash.
C18_HeaderConstant ==
    \A r \in receipts : \A q \in receipts :
        r.agreementId = q.agreementId
           => /\ r.chainId = q.chainId
              /\ r.contractAddress = q.contractAddress
              /\ r.clauseHash = q.clauseHash

\* GET /agreements/{id}: root.matched for an existing anchor
root_match(q) ==
    LET rs == list_receipts(receipts, q.agreementId)
    IN (IF rs # <<>> THEN merkle_root_hash(HashesOf(rs)) ELSE ZeroHash) = q.rootHash

\* the stored receipts an anchor names, in sequence order
AnchoredReceipts(q) ==
    OrderBySequence({r \in receipts :
        r.agreementId = q.agreementId
          /\ \E i \in 1..Len(q.receiptIds) : q.receiptIds[i] = r.receiptId})

C20_RejectedLeavesTables ==
    [][response'.status = 400 => UNCHANGED <<clauses, receipts, anchors>>]_vars

\* a receipt was turned down while every table holds rows
C20_Witness ==
    /\ response = Response("POST /receipts", 400)
    /\ clauses # {} /\ receipts # {} /\ anchors # {}

\* ------------------------------------------------------------------------
\* verify_receipt_chain on well-formed chains and on chains with one altered field
\* ------------------------------------------------------------------------
\* the well-formed chains of n receipts: receipt ids 1..n, sequences 0..n-1, each
\* linked to its predecessor, hashed and signed by its actor
RECURSIVE ChainsOfLen(_)
ChainsOfLen(n) ==
    IF n = 0 THEN {<<>>}
    ELSE {Append(c, MkReceipt(n, "a1", BadHash, n - 1, body,
                              IF n = 1 THEN ZeroHash ELSE c[n - 1].receiptHash)) :
             c \in ChainsOfLen(n - 1), body \in Bodies}

WellFormedChains == UNION {ChainsOfLen(n) : n \in 0..MaxChain}

ChainFields == {"sequence", "chainId", "contractAddress", "agreementId", "clauseHash",
                "timestamp", "prevHash", "receiptHash", "signature"}

\* the values a field of receipt r may be altered to, all different from its value
AlteredValues(r, field) ==
    CASE field = "sequence" -> (0..MaxChain) \ {r.sequence}
      [] field = "chainId" -> {r.chainId + 1}
      [] field = "contractAddress" -> {"0xD"}
      [] field = "agreementId" -> {"a2"}
      [] field = "clauseHash" -> {ZeroHash, <<"other">>} \ {r.clauseHash}
      [] field = "timestamp" -> {r.timestamp + 1}
      [] field = "prevHash" -> {ZeroHash, BadHash, r.receiptHash} \ {r.prevHash}
      [] field = "receiptHash" -> {ZeroHash, BadHash}
      [] field = "signature" -> {[r.signature EXCEPT !.by = "X"],
                                [r.signature EXCEPT !.over = BadHash],
                                [r.signature EXCEPT !.v = "0/1"]}

Alter(r, field, value) ==
    CASE field = "sequence" -> [r EXCEPT !.sequence = value]
      [] field = "chainId" -> [r EXCEPT !.chainId = value]
      [] field = "contractAddress" -> [r EXCEPT !.contractAddress = value]
      [] field = "agreementId" -> [r EXCEPT !.agreementId = value]
      [] field = "clauseHash" -> [r EXCEPT !.clauseHash = value]
      [] field = "timestamp" -> [r EXCEPT !.timestamp = value]
      [] field = "prevHash" -> [r EXCEPT !.prevHash = value]
      [] field = "receiptHash" -> [r EXCEPT !.receiptHash = value]
      [] field = "signature" -> [r EXCEPT !.signature = value]

\* a call: the receipts passed, and which field of which receipt was altered
ChainCall(chain, i, field) == [fn |-> "verify_receipt_chain", receipts |-> chain,
                               index |-> i, field |-> field]

ChainCalls ==
    {ChainCall(c, 0, "none") : c \in WellFormedChains}
    \cup UNION {UNION {UNION {
           {ChainCall([c EXCEPT ![i] = Alter(c[i], field, value)], i, field) :
               value \in AlteredValues(c[i], field)}
           : field \in ChainFields} : i \in 1..Len(c)} : c \in WellFormedChains}

InitChain == InitIdle /\ fnArgs \in ChainCalls /\ fnResult = NoResult

VerifyChain ==
    /\ ~fnResult.done
    /\ fnArgs.fn = "verify_receipt_chain"
    /\ fnResult' = [done |-> TRUE, errors |-> verify_receipt_chain(fnArgs.receipts, NoExpect)]
    /\ UNCHANGED <<fnArgs, flow, evVars, escVars, judgeVars, repVars, fxVars, cliVars, runVars>>

ChainNext == VerifyChain

SpecChain == InitChain /\ [][ChainNext]_vars

Verified == fnArgs # <<>> /\ fnArgs.fn = "verify_receipt_chain" /\ fnResult.done

\* C21 as stated: a well-formed chain yields no errors, and a chain with any single
\* altered field of any receipt yields at least one error.
C21_ChainExactlyWellFormed ==
    Verified => (fnResult.errors = {} <=> fnArgs.field = "none")

\* ------------------------------------------------------------------------
\* merkle_root_hash on lists of receipt hashes
\* ------------------------------------------------------------------------
\* hashes as keccak_hex writes them
LeafValues == {<<"leaf", 1>>, <<"leaf", 2>>, <<"leaf", 3>>}

RECURSIVE LeafLists(_)
LeafLists(n) ==
    IF n = 0 THEN {<<>>} ELSE {Append(l, h) : l \in LeafLists(n - 1), h \in LeafValues}

\* a call, and two positions of the list to exchange in a second call
MerkleCalls ==
    UNION {{[fn |-> "merkle_root_hash", leaves |-> l, i |-> i, j |-> j] :
               l \in LeafLists(n), i \in 1..n, j \in 1..n} : n \in 1..MaxLeaves}
    \cup {[fn |-> "merkle_root_hash", leaves |-> <<>>, i |-> 0, j |-> 0]}

Exchanged(l, i, j) ==
    [k \in 1..Len(l) |-> IF k = i THEN l[j] ELSE IF k = j THEN l[i] ELSE l[k]]

InitMerkle == InitIdle /\ fnArgs \in MerkleCalls /\ fnResult = NoResult

MerkleRoot ==
    /\ ~fnResult.done
    /\ fnArgs.fn = "merkle_root_hash"
    /\ fnResult' = [done |-> TRUE,
                    root |-> merkle_root_hash(fnArgs.leaves),
                    again |-> merkle_root_hash(fnArgs.leaves),
                    exchanged |-> merkle_root_hash(Exchanged(fnArgs.leaves, fnArgs.i, fnArgs.j))]
    /\ UNCHANGED <<fnArgs, flow, evVars, escVars, judgeVars, repVars, fxVars, cliVars, runVars>>

MerkleNext == MerkleRoot

SpecMerkle == InitMerkle /\ [][MerkleNext]_vars

\* C22: merkle_root_hash returns "0x0" for no leaf and the leaf for one leaf; for
\* two, three and four leaves it returns the hash of the adjacent pairs taken
\* level by level, an unpaired last node being paired with itself; a second call
\* on the same list returns the same root; the root changes when two distinct
\* leaves exchange positions.
C22_MerkleRoot ==
    (fnArgs # <<>> /\ fnArgs.fn = "merkle_root_hash" /\ fnResult.done) =>
        LET l == fnArgs.leaves
            n == Len(l)
        IN /\ n = 0 => fnResult.root = ZeroHash
           /\ n = 1 => fnResult.root = l[1]
           /\ n = 2 => fnResult.root = PairHash(l[1], l[2])
           /\ n = 3 => fnResult.root = PairHash(PairHash(l[1], l[2]), PairHash(l[3], l[3]))
           /\ n = 4 => fnResult.root = PairHash(PairHash(l[1], l[2]), PairHash(l[3], l[4]))
           /\ fnResult.again = fnResult.root
           /\ (n >= 2 /\ l[fnArgs.i] # l[fnArgs.j]) => fnResult.exchanged # fnResult.root

C22_Witness ==
    /\ fnArgs # <<>> /\ fnArgs.fn = "merkle_root_hash" /\ fnResult.done
    /\ Len(fnArgs.leaves) = 3
    /\ fnArgs.i = 2 /\ fnArgs.j = 3 /\ fnArgs.leaves[2] # fnArgs.leaves[3]

\* ------------------------------------------------------------------------
\* Canonical JSON (packages/protocol/canonical_json.py, hashing.py)
\* ------------------------------------------------------------------------
\* JSON-compatible Python values: int, float (n + frac/10), str, list, dict (its
\* items in insertion order, keys unique)
JInt(n) == [t |-> "int", n |-> n, frac |-> 0, s |-> "", items |-> <<>>]
JFloat(n, frac) == [t |-> "float", n |-> n, frac |-> frac, s |-> "", items |-> <<>>]
JStr(str) == [t |-> "str", n |-> 0, frac |-> 0, s |-> str, items |-> <<>>]
JArr(values) == [t |-> "arr", n |-> 0, frac |-> 0, s |-> "",
                 items |-> [i \in 1..Len(values) |-> [k |-> "", v |-> values[i]]]]
JObj(items) == [t |-> "obj", n |-> 0, frac |-> 0, s |-> "", items |-> items]

JsonKeys == {"a", "b"}
\* the order of str keys under sorted()
KeyRank(k) == IF k = "a" THEN 1 ELSE 2

\* sorted(value): the items in ascending key order
RECURSIVE SortedItems(_)
SortedItems(items) ==
    IF items = <<>> THEN <<>>
    ELSE LET n == Len(items)
             init == SortedItems(SubSeq(items, 1, n - 1))
             k == Cardinality({i \in 1..Len(init) : KeyRank(init[i].k) <= KeyRank(items[n].k)})
         IN SubSeq(init, 1, k) \o <<items[n]>> \o SubSeq(init, k + 1, Len(init))

\* _normalize that keeps integral floats as floats
RECURSIVE NormalizeKeepingFloats(_)
NormalizeKeepingFloats(value) ==
    IF value.t = "obj"
    THEN JObj(SortedItems([i \in 1..Len(value.items) |->
                 [k |-> value.items[i].k, v |-> NormalizeKeepingFloats(value.items[i].v)]]))
    ELSE IF value.t = "arr"
    THEN JArr([i \in 1..Len(value.items) |-> NormalizeKeepingFloats(value.items[i].v)])
    ELSE value

RECURSIVE Normalize(_)
Normalize(value) ==
    IF value.t = "obj"
    THEN JObj(SortedItems([i \in 1..Len(value.items) |->
                 [k |-> value.items[i].k, v |-> Normalize(value.items[i].v)]]))
    ELSE IF value.t = "arr"
    THEN JArr([i \in 1..Len(value.items) |-> Normalize(value.items[i].v)])
    ELSE IF value.t = "float" /\ value.frac = 0
    THEN JInt(value.n)
    ELSE value

\* json.dumps(..., sort_keys=True, separators=(",", ":")): the text as tokens; an
\* int is written as its digits, a float with its fraction ("5" and "5.0")
Tok(c, n, frac, str) == [c |-> c, n |-> n, frac |-> frac, s |-> str]
Punct(c) == Tok(c, 0, 0, "")

RECURSIVE Encode(_)
RECURSIVE EncodeItems(_, _, _)
EncodeItems(items, i, withKeys) ==
    IF i > Len(items) THEN <<>>
    ELSE (IF i > 1 THEN <<Punct(",")>> ELSE <<>>)
         \o (IF withKeys THEN <<Tok("key", 0, 0, items[i].k), Punct(":")>> ELSE <<>>)
         \o Encode(items[i].v)
         \o EncodeItems(items, i + 1, withKeys)

Encode(value) ==
    CASE value.t = "int" -> <<Tok("digits", value.n, -1, "")>>
      [] value.t = "float" -> <<Tok("digits", value.n, value.frac, "")>>
      [] value.t = "str" -> <<Tok("string", 0, 0, value.s)>>
      [] value.t = "arr" -> <<Punct("[")>> \o EncodeItems(value.items, 1, FALSE) \o <<Punct("]")>>
      [] value.t = "obj" ->
           <<Punct("{")>> \o EncodeItems(SortedItems(value.items), 1, TRUE) \o <<Punct("}")>>

canonical_json_obj(value) == Normalize(value)
canonical_json_dumps(value) == Encode(canonical_json_obj(value))
\* keccak over the canonical bytes
hash_canonical(value) == <<"keccak", canonical_json_dumps(value)>>

\* the values under check: scalars, lists and dicts of scalars, and one more level
JsonScalars == {JInt(5), JFloat(5, 0), JFloat(5, 5), JStr("x")}

ListsOver(V) == {JArr(<<>>)} \cup {JArr(<<v>>) : v \in V} \cup {JArr(<<v, w>>) : v \in V, w \in V}
DictsOver(V) ==
    {JObj(<<>>)}
    \cup {JObj(<<[k |-> key, v |-> v]>>) : key \in JsonKeys, v \in V}
    \cup {JObj(<<[k |-> "a", v |-> v], [k |-> "b", v |-> w]>>) : v \in V, w \in V}
    \cup {JObj(<<[k |-> "b", v |-> w], [k |-> "a", v |-> v]>>) : v \in V, w \in V}

JsonFlat == JsonScalars \cup ListsOver(JsonScalars) \cup DictsOver(JsonScalars)
JsonNested ==
    LET inner == {JObj(<<[k |-> "a", v |-> JInt(5)], [k |-> "b", v |-> JStr("x")]>>),
                  JObj(<<[k |-> "b", v |-> JStr("x")], [k |-> "a", v |-> JFloat(5, 0)]>>),
                  JArr(<<JInt(5), JStr("x")>>), JArr(<<JStr("x"), JFloat(5, 0)>>)}
    IN ListsOver(inner) \cup DictsOver(inner)

JsonCalls == {[fn |-> "canonical_json_dumps", x |-> x, y |-> y] : x \in JsonFlat, y \in JsonFlat}
             \cup {[fn |-> "canonical_json_dumps", x |-> x, y |-> y] : x \in JsonNested, y \in JsonNested}

InitJson == InitIdle /\ fnArgs \in JsonCalls /\ fnResult = NoResult

Canonicalise ==
    /\ ~fnResult.done
    /\ fnArgs.fn = "canonical_json_dumps"
    /\ fnResult' = [done |-> TRUE,
                    x |-> canonical_json_dumps(fnArgs.x),
                    y |-> canonical_json_dumps(fnArgs.y),
                    obj |-> canonical_json_obj(fnArgs.x),
                    objAgain |-> canonical_json_obj(canonical_json_obj(fnArgs.x)),
                    again |-> canonical_json_dumps(canonical_json_obj(fnArgs.x)),
                    hx |-> hash_canonical(fnArgs.x),
                    hy |-> hash_canonical(fnArgs.y)]
    /\ UNCHANGED <<fnArgs, flow, evVars, escVars, judgeVars, repVars, fxVars, cliVars, runVars>>

JsonNext == Canonicalise

SpecJson == InitJson /\ [][JsonNext]_vars

\* two values that differ at most in the key order of dicts and in writing an
\* integral number as float or as int, at any depth
RECURSIVE Same(_, _)
Same(x, y) ==
    CASE x.t \in {"int", "float"} -> y.t \in {"int", "float"} /\ x.n = y.n /\ x.frac = y.frac
      [] x.t = "str" -> y.t = "str" /\ x.s = y.s
      [] x.t = "arr" -> /\ y.t = "arr" /\ Len(x.items) = Len(y.items)
                        /\ \A i \in 1..Len(x.items) : Same(x.items[i].v, y.items[i].v)
      [] x.t = "obj" -> /\ y.t = "obj" /\ Len(x.items) = Len(y.items)
                        /\ \A i \in 1..Len(x.items) : \E j \in 1..Len(y.items) :
                              x.items[i].k = y.items[j].k /\ Same(x.items[i].v, y.items[j].v)

Canonicalised == fnArgs # <<>> /\ fnArgs.fn = "canonical_json_dumps" /\ fnResult.done

\* C23: two values that differ only in key order or in writing an integral number
\* as float or int get the same canonical string; the canonical string of a list
\* is the canonical strings of its elements in the list's order; canonicalising a
\* canonical object changes neither the object nor its string; hash_canonical
\* agrees on two values exactly when their canonical strings are equal.
C23_Canonical ==
    Canonicalised =>
        /\ Same(fnArgs.x, fnArgs.y) => fnResult.x = fnResult.y
        /\ fnArgs.x.t = "arr" =>
              fnResult.x = <<Punct("[")>>
                           \o (IF Len(fnArgs.x.items) >= 1
                               THEN canonical_json_dumps(fnArgs.x.items[1].v) ELSE <<>>)
                           \o (IF Len(fnArgs.x.items) >= 2
                               THEN <<Punct(",")>> \o canonical_json_dumps(fnArgs.x.items[2].v)
                               ELSE <<>>)
                           \o <<Punct("]")>>
        /\ fnResult.objAgain = fnResult.obj
        /\ fnResult.again = fnResult.x
        /\ (fnResult.hx = fnResult.hy) <=> (fnResult.x = fnResult.y)

\* nested dicts written in another key order, 5 in one and 5.0 in the other
C23_Witness ==
    /\ Canonicalised
    /\ fnArgs.x # fnArgs.y /\ Same(fnArgs.x, fnArgs.y)
    /\ fnArgs.x.t = "obj" /\ Len(fnArgs.x.items) = 2
    /\ fnArgs.x.items[1].v.t = "obj" /\ fnArgs.x.items[1].k # fnArgs.y.items[1].k

\* ------------------------------------------------------------------------
\* run_dispute_flow (apps/consumer_agent/flow.py) against the evidence service
\* and the dry-run escrow backend
\* ------------------------------------------------------------------------
\* each flow draws its own agreement id and clause id (uuid4)
FlowAgreement(f) == IF f = 1 THEN "a1" ELSE "a2"
FlowClauseId(f) == IF f = 1 THEN "c1" ELSE "c2"
\* tx_id of file_dispute: keccak(agreement_id) % (2**63 - 1)
FlowTxId(f) == 6 + f

\* the three receipts of the bad path: request, response, sla_check
FlowBody(seq) ==
    IF seq = 0 THEN Body("request", 1000)
    ELSE IF seq = 1 THEN Body("response", 5000)
    ELSE Body("sla_check", 5000)

\* plaintiff_evidence = anchor["rootHash"]
FlowEvidenceNone(fl) == Zero32
FlowEvidence(fl) == fl.rootHash

Failed(f) == [flow EXCEPT ![f].pc = "failed"]

\* rc.post_clause(rc.create_clause(...)); raise_for_status
FlowPostClause(f, up) ==
    LET c == MkClause(FlowClauseId(f), FlowAgreement(f), <<LatencyRule>>, <<RateRule(60)>>)
        ok == up /\ PostClauseStatus(c) = 200
    IN /\ flow[f].pc = "clause"
       /\ clauses' = IF ok THEN store_clause(clauses, c) ELSE clauses
       /\ response' = IF up THEN Response("POST /clauses", PostClauseStatus(c)) ELSE response
       /\ flow' = IF ok THEN [flow EXCEPT ![f].pc = "receipts", ![f].clauseHash = c.clauseHash]
                  ELSE Failed(f)
       /\ UNCHANGED <<receipts, anchors, req, escVars, judgeVars, repVars, fxVars, fnVars,
                      cliVars, runVars>>

\* rc.post_receipt(rc.create_receipt(sequence, prev_hash = the last receiptHash))
FlowPostReceipt(f, up) ==
    LET fl == flow[f]
        r == MkReceipt(10 * f + fl.sequence, FlowAgreement(f), fl.clauseHash, fl.sequence,
                       FlowBody(fl.sequence), fl.prevHash)
        checked == /\ ReceiptPrecheck(r) = 200
                   /\ ChainCheck(list_receipts(receipts, r.agreementId), r) = 200
        stored == store_receipt(receipts, r)
        ok == up /\ checked /\ ~stored.raised
    IN /\ fl.pc = "receipts"
       /\ receipts' = IF up /\ checked THEN stored.table ELSE receipts
       /\ response' = IF up THEN Response("POST /receipts", IF ok THEN 200 ELSE 400) ELSE response
       /\ flow' = IF ok
                  THEN [flow EXCEPT ![f].sequence = fl.sequence + 1,
                                    ![f].prevHash = r.receiptHash,
                                    ![f].pc = IF fl.sequence = 2 THEN "anchor" ELSE "receipts"]
                  ELSE Failed(f)
       /\ UNCHANGED <<clauses, anchors, req, escVars, judgeVars, repVars, fxVars, fnVars,
                      cliVars, runVars>>

\* anchor = rc.anchor(agreement_id); raise_for_status
FlowAnchor(f, up) ==
    LET a == FlowAgreement(f)
        rs == list_receipts(receipts, a)
        root == merkle_root_hash(HashesOf(rs))
        block == mockBlock + 1
        ev == CommitEvidenceEvent(a, root, Provider, block)
        ok == up /\ rs # <<>>
    IN /\ flow[f].pc = "anchor"
       /\ IF ok
          THEN /\ mockBlock' = block
               /\ events' = Append(events, ev)
               /\ anchors' = store_anchor(anchors, a, root, ev.txHash, IdsOf(rs))
               /\ response' = Response("POST /anchor", 200)
               /\ flow' = [flow EXCEPT ![f].pc = "file_dispute", ![f].rootHash = root]
          ELSE /\ UNCHANGED <<mockBlock, events, anchors>>
               /\ response' = IF up THEN Response("POST /anchor", 404) ELSE response
               /\ flow' = Failed(f)
       /\ UNCHANGED <<clauses, receipts, req, mockDisputeId, disputes, judgeVars, repVars,
                      fxVars, fnVars, cliVars, runVars>>

\* consumer_escrow.file_dispute(agreement_id, defendant, stake, plaintiff_evidence)
FlowFileDispute(f) ==
    LET id == mockDisputeId + 1
        block == mockBlock + 1
    IN /\ flow[f].pc = "file_dispute"
       /\ mockDisputeId' = id
       /\ disputes' = mock_put_dispute(disputes, id,
                          DisputeRow(FlowTxId(f), Consumer, Provider, 1000,
                                     FlowEvidence(flow[f])))
       /\ mockBlock' = block
       /\ events' = Append(events,
              MockEvent("DisputeFiled", block, MockTxHash("file-dispute", block),
                        [disputeId |-> id, plaintiff |-> Consumer, defendant |-> Provider]))
       /\ flow' = [flow EXCEPT ![f].pc = "done", ![f].disputeId = id]
       /\ UNCHANGED <<evVars, judgeVars, repVars, fxVars, fnVars, cliVars, runVars>>

FlowNext ==
    \/ \E f \in Flows : \E up \in BOOLEAN : FlowPostClause(f, up)
    \/ \E f \in Flows : \E up \in BOOLEAN : FlowPostReceipt(f, up)
    \/ \E f \in Flows : \E up \in BOOLEAN : FlowAnchor(f, up)
    \/ \E f \in Flows : FlowFileDispute(f)

SpecFlow == Init /\ [][FlowNext]_vars

\* the flow's dispute was filed after the flow's anchor was committed, with the
\* anchored root as evidence, and the evidence service resolves it
FiledOnAnchor(f) ==
    \E j \in 1..Len(events) : \E i \in 1..(j - 1) :
        /\ events[j].name = "DisputeFiled" /\ events[j].args.disputeId = flow[f].disputeId
        /\ events[i].name = "EvidenceCommitted"
        /\ events[i].args.agreementId = FlowAgreement(f)
        /\ events[i].args.rootHash = flow[f].rootHash
        /\ \A row \in mock_get_dispute(disputes, flow[f].disputeId) : row[7] = flow[f].rootHash
        /\ mock_get_dispute(disputes, flow[f].disputeId) # {}
        /\ get_anchor_by_root(anchors, flow[f].rootHash) # {}
        /\ \A q \in get_anchor_by_root(anchors, flow[f].rootHash) :
              q.agreementId = FlowAgreement(f)

\* C24: every DisputeFiled event was emitted by a flow whose POST /anchor had
\* succeeded before, the plaintiffEvidence of its dispute is the rootHash that
\* call returned, and the evidence service resolves that root to the anchor of
\* the flow's agreement.
C24_DisputeAfterAnchor ==
    /\ \A f \in Flows : flow[f].pc = "done" => FiledOnAnchor(f)
    /\ \A j \in 1..Len(events) :
          events[j].name = "DisputeFiled" =>
              \E f \in Flows : flow[f].pc = "done" /\ flow[f].disputeId = events[j].args.disputeId

\* both flows have filed their dispute
C24_Witness == \A f \in Flows : flow[f].pc = "done"

\* ------------------------------------------------------------------------
\* C25: the AI panel and its parse failures
\* ------------------------------------------------------------------------
HasCode(codes, code) == \E i \in 1..Len(codes) : codes[i] = code

\* the bundle the handler is about to fetch for the event at the head of its batch
\* with the root it is fetched by
HandledBundles ==
    UNION {{[root |-> row[7], bundle |-> b] : b \in EvidenceBundle(row[7])} :
              row \in mock_get_dispute(disputes, Head(judge.batch).dispute_id)}

ParseErrorVerdict(v) ==
    HasCode(v.reasonCodes, "llm_parse_error")
       => v.confidence = 45 /\ v.winner = v.defendant

\* C25: a run of the handler consults the AI panel only when the evidence
\* verifies and extract_facts names no winner; a verdict with reason code
\* llm_parse_error has confidence 0.45 and the defendant as winner, its run does
\* not call submit_ruling, and it is stored as manual_review without submitTxHash.
C25_PanelFallback ==
    /\ [](/\ judge.pc \in {"submit", "store"} =>
               /\ ParseErrorVerdict(judge.run.verdict)
               /\ "llm" \in judge.run.consulted => judge.run.ok
               /\ (judge.pc = "store" /\ HasCode(judge.run.verdict.reasonCodes, "llm_parse_error"))
                     => ~judge.run.rulingCalled /\ judge.run.verdict.status = "manual_review"
          /\ \A v \in verdicts :
               /\ ParseErrorVerdict(v)
               /\ HasCode(v.reasonCodes, "llm_parse_error")
                     => v.status = "manual_review" /\ v.submitTxHash = NoTx)
    /\ [][(judge.pc = "handle" /\ judge'.pc = "submit" /\ "llm" \in judge'.run.consulted)
             => \A h \in HandledBundles :
                   /\ verify_evidence_bundle(h.bundle.receipts, h.root, h.bundle.clause,
                                             h.bundle.agreementId) = {}
                   /\ extract_facts(h.bundle.clause, h.bundle.receipts).winner = None]_vars

C25_Witness ==
    \E v \in verdicts : HasCode(v.reasonCodes, "llm_parse_error") /\ v.status = "manual_review"

\* ------------------------------------------------------------------------
\* The judge's watch loop over the disputes of the consumer flows
\* ------------------------------------------------------------------------
WatchNext ==
    \/ \E f \in Flows : \E up \in BOOLEAN : FlowPostClause(f, up)
    \/ \E f \in Flows : \E up \in BOOLEAN : FlowPostReceipt(f, up)
    \/ \E f \in Flows : \E up \in BOOLEAN : FlowAnchor(f, up)
    \/ \E f \in Flows : FlowFileDispute(f)
    \/ JudgePoll
    \/ JudgeLoop
    \/ \E reply \in LlmReplies : \E fetched \in BOOLEAN : JudgeDecide(reply, fetched)
    \/ JudgeSubmit
    \/ JudgeStore
    \/ JudgeRaise
    \/ JudgeRestart

SpecWatch == Init /\ [][WatchNext]_vars

\* the DisputeFiled logs from a block on, as dispute ids
FiledFrom(block) ==
    {events[i].args.disputeId : i \in {k \in 1..Len(events) :
        events[k].name = "DisputeFiled" /\ events[k].blockNumber >= block}}

\* the handler is running on the head of the batch
Handling == judge.pc \in {"handle", "submit", "store"}

\* the step leaves the handler by the loop's except clause (or by a restart)
Raises == Handling /\ judge'.pc = "idle"

\* C26: the stored cursor changes only in the step that ends a tick whose batch
\* was worked through (each event skipped as processed or handled to its
\* return), and it becomes the tick's next_block; a raise in the handler leaves
\* the stored cursor and from_block as they were; the next poll returns every
\* DisputeFiled log from from_block on again, and of these the handler is
\* started only on disputes that have no stored verdict.
C26_CursorAtTickEnd ==
    /\ [][cursor' # cursor =>
            /\ judge.pc = "loop" /\ judge.batch = <<>>
            /\ cursor' = judge.next_block
            /\ judge'.pc = "idle"]_vars
    /\ [][Raises => /\ cursor' = cursor
                     /\ judge'.from_block = judge.from_block
                     /\ judge'.batch = <<>>]_vars
    /\ [][judge.pc = "idle" /\ judge'.pc = "loop" =>
            {judge'.batch[i].dispute_id : i \in 1..Len(judge'.batch)}
                = FiledFrom(judge.from_block)]_vars
    /\ [](Handling => Len(judge.batch) > 0)
    /\ [][judge.pc = "loop" /\ judge'.pc = "handle" =>
            ~is_processed(verdicts, Head(judge.batch).dispute_id)]_vars
    /\ [][judge.pc = "loop" /\ judge.batch # <<>>
            /\ is_processed(verdicts, Head(judge.batch).dispute_id) =>
            judge'.pc \in {"loop", "idle"} /\ verdicts' = verdicts
            /\ rulingCalls' = rulingCalls]_vars

\* a replay after a raise: the first dispute of the batch was handled in the
\* tick that raised and is about to be skipped, the second is to be handled
C26_Witness ==
    /\ faults = 1
    /\ cursor = 0
    /\ judge.pc = "loop"
    /\ Len(judge.batch) = 2
    /\ is_processed(verdicts, judge.batch[1].dispute_id)
    /\ ~is_processed(verdicts, judge.batch[2].dispute_id)

\* the DisputeFiled logs some poll has returned, as [id, block] records
DispatchedLogs ==
    {[id |-> events[i].args.disputeId, block |-> events[i].blockNumber] :
        i \in {k \in 1..Len(events) :
                  events[k].name = "DisputeFiled" /\ events[k].args.disputeId \in dispatched}}

\* C27: a dispute the judge has polled is not dropped when its handler finds no
\* dispute struct or gets an error status from the evidence service: the stored
\* cursor does not pass the block of a polled DisputeFiled log before a verdict
\* is stored for its dispute, so the log is polled and handled again.
C27_NoDisputeDropped ==
    \A log \in DispatchedLogs :
        cursor > log.block => is_processed(verdicts, log.id)

\* C28: the judge's stored cursor never passes a DisputeFiled log that no poll
\* has returned: for every DisputeFiled log at block b, the log was returned by
\* a poll before the cursor exceeds b, whatever the number of polls that find
\* no log between two transactions of the ledger.
C28_CursorBehindUndispatched ==
    \A i \in 1..Len(events) :
        events[i].name = "DisputeFiled" /\ cursor > events[i].blockNumber
            => events[i].args.disputeId \in dispatched

\* ------------------------------------------------------------------------
\* The reputation watcher under a fair scheduler: the process is not killed,
\* run_forever keeps ticking and a tick that has started runs to its return or
\* to its exception
\* ------------------------------------------------------------------------
ReputationFairNext ==
    \/ \E a \in AgreementIds : CommitEvidence(a, Zero32)
    \/ \E txId \in {0, 7} : FileDispute(txId, 1000, Zero32)
    \/ \E id \in DisputeIds : \E w \in {Consumer, Provider} : SubmitRuling(id, w)
    \/ RepPollRulings
    \/ RepPollCommits
    \/ RepStep
    \/ RepFinish

SpecReputationFair ==
    /\ Init /\ [][ReputationFairNext]_vars
    /\ WF_vars(RepPollRulings) /\ WF_vars(RepPollCommits)
    /\ WF_vars(RepStep) /\ WF_vars(RepFinish)

\* the log at a position of the ledger's event table is one the watcher reads
Scored(i) ==
    /\ i <= Len(events)
    /\ events[i].name \in {"EvidenceCommitted", "RulingSubmitted"}

\* the history holds the entries of the log at a position of the event table
Applied(i) ==
    /\ i <= Len(events)
    /\ IF events[i].name = "EvidenceCommitted"
       THEN KeyStored(scoreEvents,
                <<"evidence-commit", events[i].txHash, events[i].args.agent>>)
       ELSE IF events[i].name = "RulingSubmitted"
       THEN /\ KeyStored(scoreEvents, <<"ruling-win", events[i].args.disputeId,
                                        events[i].args.winner>>)
            /\ KeyStored(scoreEvents, <<"ruling-lose", events[i].args.disputeId,
                                        events[i].args.loser>>)
       ELSE FALSE

\* the watcher is between two ticks and its next poll returns the log at a
\* position of the event table
Pending(i) ==
    /\ Scored(i)
    /\ rep.pc = "idle"
    /\ events[i].blockNumber >= rep.from_block

\* C29: under a fair reputation watcher every EvidenceCommitted and every
\* RulingSubmitted log of the ledger that the watcher's next poll returns is
\* eventually applied to the reputation history, a tick that raises leaves the
\* stored cursor, and after a tick that raised a later tick returns: the watcher
\* does not raise on the same log forever.
C29_EveryEventApplied ==
    /\ \A i \in 1..(MaxAnchors + MaxDisputes + MaxRulings) : [](Pending(i) => <>Applied(i))
    /\ [][rep'.outcome = "raised" => repCursor' = repCursor]_vars
    /\ [](rep.outcome = "raised" => <>(rep.outcome = "returned"))

\* ------------------------------------------------------------------------
\* C30: the latency fact
\* ------------------------------------------------------------------------
\* max(0, responseTimestamp - requestTimestamp) of every request receipt and
\* response receipt with the same requestId
PairLatencies(rs) ==
    {IF rs[j].timestamp - rs[i].timestamp > 0 THEN rs[j].timestamp - rs[i].timestamp ELSE 0 :
        <<i, j>> \in {p \in IndicesOf(rs, "request") \X IndicesOf(rs, "response") :
                        rs[p[1]].requestId = rs[p[2]].requestId}}

PairMax(rs) == IF PairLatencies(rs) = {} THEN 0 ELSE SetMax(PairLatencies(rs))

\* C30: extract_facts reports as latency_ms the maximum of max(0, response
\* timestamp - request timestamp) over the request receipts that have a response
\* receipt with the same requestId, 0 when there is none, and it emits
\* sla_breach:latency exactly when the clause has a `latency_ms <=` rule whose
\* threshold that maximum exceeds.
C30_LatencyFact ==
    fxOut.done =>
        /\ fxOut.extracted.facts.latency_ms = PairMax(fxReceipts)
        /\ HasCode(fxOut.extracted.reasonCodes, "sla_breach:latency")
             <=> \E k \in 1..Len(fxClause.slaRules) :
                    /\ fxClause.slaRules[k].metric = "latency_ms"
                    /\ fxClause.slaRules[k].operator = "<="
                    /\ PairMax(fxReceipts) > fxClause.slaRules[k].value

\* ------------------------------------------------------------------------
\* C31, C32, C33: cancellation, terminal events and the task of a run
\* ------------------------------------------------------------------------
\* the events a step has added to a log
AddedTo(log, logAfter) ==
    {logAfter[i] : i \in (Len(log) + 1)..Len(logAfter)}

\* C31: once cancel has set cancel_requested, no step appends an event of the
\* flow worker to the run's event log or puts one on a subscriber's queue,
\* wherever the cancel call falls between the worker's check of the flag and
\* its append and broadcast.
C31_NoProgressAfterCancel ==
    [][run.cancel_requested =>
          /\ \A e \in AddedTo(run.events, run'.events) : e.type # "flow.event"
          /\ \A w \in DOMAIN watchers :
                \A e \in AddedTo(watchers[w], watchers'[w]) : e.type # "flow.event"]_vars

TerminalEvents == {"run.complete", "run.error"}

\* the positions of the terminal events of a log
TerminalsOf(log) == {i \in 1..Len(log) : log[i].type \in TerminalEvents}

\* C32: the event log of a run holds at most one terminal event (run.complete
\* or run.error), and once it holds one no step appends to it, whether the run
\* completed, failed or was cancelled, also when it was cancelled while its
\* task was suspended in the worker call.
C32_OneTerminalEvent ==
    /\ [](Cardinality(TerminalsOf(run.events)) <= 1)
    /\ [][TerminalsOf(run.events) # {} => run'.events = run.events]_vars

\* the run.started events of a log: one per execution of the run's task
StartsOf(log) == {i \in 1..Len(log) : log[i].type = "run.started"}

\* C33: a run gets at most one execution task: a task is created only for a
\* run that has none, by create_run with auto_run or by start on a pending run,
\* the entry in _tasks is never removed, the task begins the run at most once,
\* and no start puts a running or finished run back to queued.
C33_OneTaskPerRun ==
    /\ [][task'.pc = "ready" /\ task.pc # "ready" =>
            task.pc = "none" /\ run.status \in {"absent", "pending"}]_vars
    /\ [][task.pc # "none" => task'.pc # "none"]_vars
    /\ [](Cardinality(StartsOf(run.events)) <= 1)
    /\ [][run.status \in {"running"} \cup TerminalStatuses => run'.status # "queued"]_vars

\* a run that was created without auto_run, started later and ran to its end
C33_Witness ==
    /\ run.status = "complete" /\ task.pc = "done"
    /\ Cardinality(StartsOf(run.events)) = 1

\* ------------------------------------------------------------------------
\* C34: nonces of overlapping transactions of one account
\* ------------------------------------------------------------------------
SendNext ==
    \/ \E c \in ClientIds : SendRead(c)
    \/ \E c \in ClientIds : SendSign(c)
    \/ \E c \in ClientIds : SendRaw(c)
    \/ \E c \in ClientIds : SendMined(c)

SpecSend == Init /\ [][SendNext]_vars

\* C34: no two transactions signed for the account carry the same nonce, and
\* at most one caller at a time is between reading the transaction count and
\* sending its signed transaction.
C34_NoNonceReuse ==
    /\ \A i \in 1..Len(signedTxs) : \A j \in 1..Len(signedTxs) :
          i # j => signedTxs[i].nonce # signedTxs[j].nonce
    /\ Cardinality({c \in ClientIds : senders[c].pc \in {"read", "signed"}}) <= 1

\* ------------------------------------------------------------------------
\* C38: dispute ids of the dry-run backend under several clients
\* ------------------------------------------------------------------------
FilingsNext ==
    \/ \E c \in ClientIds : FileRead(c)
    \/ \E c \in ClientIds : FileWrite(c)
    \/ \E c \in ClientIds : FilePut(c)
    \/ \E c \in ClientIds : FileEmit(c)

SpecFilings == Init /\ [][FilingsNext]_vars

\* C38: the file_dispute calls of clients sharing the mock store get distinct
\* dispute ids: no two DisputeFiled events name the same disputeId, no two
\* calls in progress hold the same id, and no file_dispute replaces a dispute
\* row that is stored.
C38_DisputeIdsUnique ==
    /\ [](\A i \in 1..Len(events) : \A j \in 1..Len(events) :
             i # j => events[i].args.disputeId # events[j].args.disputeId)
    /\ [](\A c \in ClientIds : \A d \in ClientIds :
             c # d /\ filers[c].id # 0 => filers[c].id # filers[d].id)
    /\ [][\A row \in disputes : row \in disputes']_vars

\* ------------------------------------------------------------------------
\* C35: POST /anchor requests running concurrently with POST /receipts
\* ------------------------------------------------------------------------
AnchorsNext ==
    \/ \E c \in JudgeClauseInputs : PostClause(c)
    \/ \E r \in JudgeReceiptInputs : PostReceipt(r)
    \/ \E s \in Slots : \E a \in AgreementIds : AnchorRead(s, a)
    \/ \E s \in Slots : \E ok \in BOOLEAN : AnchorCommit(s, ok)
    \/ \E s \in Slots : \E ok \in BOOLEAN : AnchorStore(s, ok)

SpecAnchors == Init /\ [][AnchorsNext]_vars

\* the positions of the EvidenceCommitted events of an agreement
CommitsOf(a) ==
    {i \in 1..Len(events) :
        events[i].name = "EvidenceCommitted" /\ events[i].args.agreementId = a}

\* C35: while no POST /anchor request is between its read and its return, the
\* anchor record of every agreement that has an EvidenceCommitted event holds
\* the rootHash and the txHash of the most recent of these events, whatever the
\* interleaving of the requests and whether a commit or an upsert failed.
C35_AnchorIsLatestCommit ==
    Anchoring = {} =>
        \A a \in AgreementIds :
            CommitsOf(a) # {} =>
                \E q \in anchors :
                    /\ q.agreementId = a
                    /\ q.rootHash = events[SetMax(CommitsOf(a))].args.rootHash
                    /\ q.txHash = events[SetMax(CommitsOf(a))].txHash

\* ------------------------------------------------------------------------
\* C36: the evidence the judge decides on
\* ------------------------------------------------------------------------
\* the anchors whose root is the plaintiffEvidence of the dispute the handler
\* is running on
AnchorsOfRun ==
    {q \in anchors :
        \E row \in mock_get_dispute(disputes, judge.run.verdict.disputeId) :
            row[7] = q.rootHash}

\* C36: when the handler has decided a dispute filed with an anchored root whose
\* anchored receipts pass verify_evidence_bundle under the agreement's clause,
\* its integrity check has passed, its decision was taken on exactly the
\* receipts of the anchor, and a winner the fact extractor finds on those
\* receipts is the verdict's winner, whatever valid receipts were stored for
\* the agreement after the anchor.
C36_DecidedOnAnchored ==
    judge.pc \in {"submit", "store"} =>
        \A q \in AnchorsOfRun : \A c \in get_clause_by_agreement(clauses, q.agreementId) :
            verify_evidence_bundle(AnchoredReceipts(q), q.rootHash, c, q.agreementId) = {} =>
                LET v == judge.run.verdict
                    extracted == extract_facts(c, AnchoredReceipts(q))
                IN /\ judge.run.ok
                   /\ v.evidenceReceiptIds = q.receiptIds
                   /\ extracted.winner = "plaintiff" => v.winner = v.plaintiff
                   /\ extracted.winner = "defendant" => v.winner = v.defendant

\* ------------------------------------------------------------------------
\* C37: the reputation store
\* ------------------------------------------------------------------------
\* the history of an actor: the rows of score_events get_reputation selects
HistoryOf(actor) == {i \in 1..Len(scoreEvents) : scoreEvents[i].actor = actor}

\* C37: in every state of the reputation store each actor's score is 100 plus
\* the sum of the deltas of the actor's history entries, every actor with a
\* history entry has a score row, and no two history entries share an event_key.
C37_ScoreIsHistorySum ==
    /\ \A actor \in DOMAIN scores :
          scores[actor] = InitialScore + DeltaSum(scoreEvents, actor)
    /\ \A i \in 1..Len(scoreEvents) : scoreEvents[i].actor \in DOMAIN scores
    /\ \A i, j \in 1..Len(scoreEvents) :
          scoreEvents[i].key = scoreEvents[j].key => i = j

\* an actor has two history entries or more and a score that has moved, and an
\* event whose key is stored has been applied again
C37_Witness ==
    /\ replayed
    /\ \E actor \in DOMAIN scores :
          /\ Cardinality(HistoryOf(actor)) >= 2
          /\ scores[actor] # InitialScore

\* ------------------------------------------------------------------------
\* C39: one root, one list of leaves
\* ------------------------------------------------------------------------
\* the non-empty lists of at most MaxLeaves leaves
NonEmptyLeafLists == UNION {LeafLists(n) : n \in 1..MaxLeaves}

\* C39: the root merkle_root_hash returns for a non-empty list of leaves is the
\* root of no other non-empty list, of another length or of other content; in
\* particular not of the list with its last leaf repeated.
C39_RootInjective ==
    (fnArgs # <<>> /\ fnArgs.fn = "merkle_root_hash" /\ fnResult.done
       /\ fnArgs.leaves # <<>>) =>
        \A other \in NonEmptyLeafLists :
            other # fnArgs.leaves => merkle_root_hash(other) # fnResult.root

====
